---- MODULE Spec2Model ----
(***************************************************************************)
(* DirectFB-media-samples: the image viewer, the video player, the font    *)
(* viewer, the data-buffer loader and the music player as state machines.   *)
(* One behaviour is one run of one program: Init picks the program and its  *)
(* command line, the actions are the steps of its main().                   *)
(***************************************************************************)
EXTENDS Integers, Sequences, FiniteSets, TLC

VARIABLES
    prog,            \* which sample runs
    argv,            \* its command line (the options the model distinguishes)
    pc,              \* position of the main thread
    exit_status,     \* NoExit while running, else the value returned by main
    held,            \* per kind of library handle: references obtained and not yet released
    last_fail,       \* the most recent library call that returned a non-OK result
    n_windows,       \* n_windows / mrl_count: windows still to be closed
    window_stack,    \* the DirectHash registry: set of entries [id, posx, posy]
    win_log,         \* the windows in creation order: [id, posx, posy, key]
    loop_i,          \* the loop variable i of main() / create_stack()
    wdsc,            \* wdsc.posx, wdsc.posy of create_stack()
    last_evt,        \* the event most recently taken from the event buffer
    video,           \* video players: [caps, i] (provider capabilities, interactivity)
    update,          \* font viewer: the page has to be drawn again
    show_help,       \* font viewer: the help page is shown
    current_font,    \* font viewer: index into fontfile_list
    glyphs_per_xline,
    glyphs_per_yline,
    threads_started, \* data-buffer loader: direct_thread_create() calls made so far
    threads,         \* data-buffer loader: per streamer thread [state, usec, left, put, fd]
    test,            \* data-buffer loader: the test function main() is in
    provider,        \* data-buffer loader: provider of the current test
    sampleformat,    \* music player: the format selected on the command line
    media,           \* music player: index of the current media in medias, 0 = NULL
    media_next,
    track,           \* music player: index of the current track in media->tracks, 0 = NULL
    track_next,
    quit,
    repeat,
    status,          \* music player: FSMusicProviderStatus of the playback loop
    back_req,        \* music player: where '<' was handled since the last track start
    last_select,     \* music player: the last SelectTrack call [media, track, quit]
    last_play,       \* music player: the last track started [media, track, quit, back]
    stream_fmt,      \* music player: sdsc.sampleformat of the last CreateStream
    mixer            \* music player: volume and pitch, the values set on the playback

win_vars == <<n_windows, window_stack, win_log, loop_i, wdsc, video>>
font_vars == <<update, show_help, current_font, glyphs_per_xline, glyphs_per_yline>>
data_vars == <<threads_started, threads, test, provider>>
music_vars == <<sampleformat, media, media_next, track, track_next, quit, repeat, status,
                back_req, last_select, last_play, stream_fmt, mixer>>

vars == <<prog, argv, pc, exit_status, held, last_fail, last_evt,
          win_vars, font_vars, data_vars, music_vars>>

-----------------------------------------------------------------------------
(* Bounds of the model *)

\* close events are drawn for window ids 0..MaxCloseId (0 is never registered)
MaxCloseId == 3

\* most files on a command line of the one-window-per-file samples
MaxFiles == 3

\* the font viewer takes a '+' key only while glyphs_per_xline is below this
MaxGlyphs == 18

\* a streamer's pause is counted while it is below this: at or above it a
\* round that sees a full buffer leaves usec as it is
MaxUsec == 1200

\* most reads a streamed file takes before direct_file_read() returns no bytes
MaxChunks == 2

\* most media files on the music player's command line, most tracks of a media
MaxMedias == 2
MaxTracks == 2

\* most volume and pitch keys read by the music player in one run
MaxMixerKeys == 1

-----------------------------------------------------------------------------
(* Library results and handle kinds *)

DFB_OK == "DFB_OK"
DFB_FAILURE == "DFB_FAILURE"
Results == {DFB_OK, DFB_FAILURE}

NoExit == -1

Kinds == {"dfb", "layer", "event_buffer", "image", "video", "frame", "logo",
          "window", "surface", "primary", "font", "buffer",
          "sound", "music", "stream", "playback"}

NoFail == [site |-> "none", wrapped |-> FALSE]

Fail(site, wrapped) == [site |-> site, wrapped |-> wrapped]

\* h with one more reference of kind k / with n references of kind k given back
Acquire(h, k) == [h EXCEPT ![k] = @ + 1]
Release(h, k, n) == [h EXCEPT ![k] = @ - n]

\* "if (x) x->Release( x )" for each interface pointer of ks, in a shutdown function
ReleaseAll(h, ks) == [k \in Kinds |-> IF k \in ks THEN 0 ELSE h[k]]

\* a mutated check macro: the failure is printed but execution goes on
DFBCHECK_continue(ret, next) == next

\* DFBCHECK(x): DirectFBErrorFatal() when x is not DFB_OK, else go on
DFBCHECK(ret, next) == IF ret /= DFB_OK THEN "aborted" ELSE next

\* a straight run of DFBCHECK-wrapped calls, each obtaining a handle of the given
\* kind ("none": no handle).  f is the first call that fails, 0 when none does.
\* prev is the failure on record when the run goes through.
CheckedRunAfter(calls, f, next, prev) ==
    /\ f \in 0..Len(calls)
    /\ held' = [k \in Kinds |->
                  held[k] + Cardinality({j \in 1..Len(calls) :
                                           /\ (f = 0 \/ j < f)
                                           /\ calls[j].kind = k})]
    /\ last_fail' = IF f = 0 THEN prev ELSE Fail(calls[f].site, TRUE)
    /\ pc' = DFBCHECK(IF f = 0 THEN DFB_OK ELSE DFB_FAILURE, next)

CheckedRun(calls, f, next) == CheckedRunAfter(calls, f, next, last_fail)

Call(site, kind) == [site |-> site, kind |-> kind]

CLAMP(x, lo, hi) == IF x < lo THEN lo ELSE IF x > hi THEN hi ELSE x

-----------------------------------------------------------------------------
(* strtol( option, NULL, 10 ) assigned to an int (LP64: long is 64 bits).    *)
(* A long is kept as sign and magnitude, the magnitude as four 16-bit limbs, *)
(* least significant first.                                                   *)

Limb == 256 * 256

Digits == {"0", "1", "2", "3", "4", "5", "6", "7", "8", "9"}

DigitVal(c) ==
    CASE c = "0" -> 0 [] c = "1" -> 1 [] c = "2" -> 2 [] c = "3" -> 3
      [] c = "4" -> 4 [] c = "5" -> 5 [] c = "6" -> 6 [] c = "7" -> 7
      [] c = "8" -> 8 [] c = "9" -> 9

ZeroMag == <<0, 0, 0, 0>>
LongMaxMag == <<65535, 65535, 65535, 32767>>   \* LONG_MAX
LongMinMag == <<0, 0, 0, 32768>>               \* -LONG_MIN

\* m * 10 + d as <<limbs, carry out of the fourth limb>>
MulAdd(m, d) ==
    LET t1 == m[1] * 10 + d
        t2 == m[2] * 10 + t1 \div Limb
        t3 == m[3] * 10 + t2 \div Limb
        t4 == m[4] * 10 + t3 \div Limb
    IN  << <<t1 % Limb, t2 % Limb, t3 % Limb, t4 % Limb>>, t4 \div Limb >>

\* the digits of s from position p on: <<magnitude, overflowed>>
RECURSIVE Accumulate(_, _, _, _)
Accumulate(s, p, m, over) ==
    IF p > Len(s) \/ s[p] \notin Digits THEN <<m, over>>
    ELSE LET r == MulAdd(m, DigitVal(s[p]))
         IN  Accumulate(s, p + 1, r[1], over \/ r[2] > 0)

\* the long strtol returns: [neg, mag], saturated at LONG_MAX / LONG_MIN
strtol(s) ==
    LET neg   == Len(s) > 0 /\ s[1] = "-"
        start == IF Len(s) > 0 /\ s[1] \in {"-", "+"} THEN 2 ELSE 1
        a     == Accumulate(s, start, ZeroMag, FALSE)
        big   == a[2] \/ (IF neg THEN a[1][4] > 32768
                                      \/ (a[1][4] = 32768 /\ a[1] /= LongMinMag)
                                 ELSE a[1][4] >= 32768)
    IN  [neg |-> neg,
         mag |-> IF big THEN (IF neg THEN LongMinMag ELSE LongMaxMag) ELSE a[1]]

\* the low 32 bits of a magnitude, read as a two's complement int
Low32(m) == IF m[2] >= 32768 THEN (m[2] - Limb) * Limb + m[1] ELSE m[2] * Limb + m[1]

MinInt == -2147483647 - 1

\* conversion of the long to int: the low 32 bits are kept
LongToInt(l) ==
    LET lo == Low32(l.mag)
    IN  IF ~l.neg THEN lo ELSE IF lo = MinInt THEN MinInt ELSE 0 - lo

-----------------------------------------------------------------------------
(* Command lines *)

\* the text after "--windows=" on the command lines the model runs
WindowsArgs ==
    { <<>>, <<"a">>, <<"0">>, <<"-", "3">>, <<"1">>, <<"2">>, <<"3">>,
      <<"2", "0">>, <<"2", "1">>, <<"3", "x">>,
      <<"2", "1", "4", "7", "4", "8", "3", "6", "4", "7">>,
      <<"2", "1", "4", "7", "4", "8", "3", "6", "4", "8">>,
      <<"4", "2", "9", "4", "9", "6", "7", "2", "9", "9">>,
      <<"-", "4", "2", "9", "4", "9", "6", "7", "2", "9", "4">>,
      <<"9", "9", "9", "9", "9", "9", "9", "9", "9", "9",
        "9", "9", "9", "9", "9", "9", "9", "9", "9", "9">> }

\* a command line: the options the samples parse and the number of file
\* arguments; unloadable: the font files (numbered from 0) that CreateFont
\* cannot load with any description
NoArgs == [has_depth |-> FALSE, depth |-> <<>>, playlist |-> <<>>, use_image |-> FALSE, use_video |-> FALSE, help |-> FALSE, has_windows |-> FALSE, windows |-> <<>>, logo |-> TRUE,
           files |-> 0, tty |-> TRUE, gain |-> "none", unloadable |-> {}]

\* argc - 1
ArgCount(a) == (IF a.help THEN 1 ELSE 0) + (IF a.has_windows THEN 1 ELSE 0)
               + (IF a.logo THEN 0 ELSE 1) + a.files

-----------------------------------------------------------------------------
(* Window events *)

QuitKeys == {"DIKS_ESCAPE", "DIKS_SMALL_Q", "DIKS_BACK", "DIKS_STOP", "DIKS_EXIT"}

\* the key symbols the events of the model carry, per sample
ImageKeys == QuitKeys \cup {"DIKS_CAPITAL_Q", "DIKS_SPACE"}
VideoKeys == QuitKeys \cup {"DIKS_CAPITAL_Q", "DIKS_SMALL_I", "DIKS_CAPITAL_I",
                            "DIKS_SPACE", "DIKS_ENTER", "DIKS_CURSOR_LEFT",
                            "DIKS_CURSOR_RIGHT", "DIKS_SMALL_P", "DIKS_SMALL_B",
                            "DIKS_SMALL_H"}
FontKeys == QuitKeys \cup {"DIKS_CAPITAL_Q", "DIKS_SPACE", "DIKS_CURSOR_UP",
                           "DIKS_BACKSPACE", "DIKS_CURSOR_DOWN", "DIKS_PLUS_SIGN",
                           "DIKS_MINUS_SIGN", "DIKS_F1", "DIKS_CAPITAL_H", "DIKS_HELP"}

\* a mutated case folding: every symbol is kept
DFB_LOWER_CASE_keep(k) == k

\* DFB_LOWER_CASE( symbol ): 'A'..'Z' become 'a'..'z', any other symbol is kept
DFB_LOWER_CASE(k) ==
    CASE k = "DIKS_CAPITAL_Q" -> "DIKS_SMALL_Q"
      [] k = "DIKS_CAPITAL_I" -> "DIKS_SMALL_I"
      [] k = "DIKS_CAPITAL_H" -> "DIKS_SMALL_H"
      [] OTHER -> k

EventTypes == {"DWET_KEYDOWN", "DWET_KEYUP", "DWET_CLOSE", "DWET_MOTION"}

NoEvent == [type |-> "none", key_symbol |-> "none", window_id |-> 0, meta |-> FALSE]

KeyEvent(t, k, m) == [type |-> t, key_symbol |-> k, window_id |-> 1, meta |-> m]
WinEvent(t, w) == [type |-> t, key_symbol |-> "none", window_id |-> w, meta |-> FALSE]

\* the events GetEvent may deliver: key events (with and without the Meta
\* modifier when metas = BOOLEAN), close events, a pointer motion
Events(keys, metas) ==
    {KeyEvent(t, k, m) : t \in {"DWET_KEYDOWN", "DWET_KEYUP"}, k \in keys, m \in metas}
    \cup {WinEvent("DWET_CLOSE", w) : w \in 0..MaxCloseId}
    \cup {WinEvent("DWET_MOTION", 1)}

\* the events of the video players: the Meta modifier is read by the key-down
\* of 'i' alone, the model holds it on that key and on one other
VideoEvents ==
    {e \in Events(VideoKeys, BOOLEAN) :
        e.meta => /\ e.type = "DWET_KEYDOWN"
                  /\ e.key_symbol \in {"DIKS_SMALL_I", "DIKS_CAPITAL_I", "DIKS_SPACE"}}

IsQuitKeyDown(evt) ==
    evt.type = "DWET_KEYDOWN" /\ DFB_LOWER_CASE(evt.key_symbol) \in QuitKeys

-----------------------------------------------------------------------------
(* The window registry *)

Entry(id, x, y) == [id |-> id, posx |-> x, posy |-> y]

\* IDirectFBWindow::GetID: the library numbers the windows it creates 1, 2, ...
GetID(log) == Len(log) + 1

\* a mutated lookup: any entry answers any id
direct_hash_lookup_any(stack, id) == stack

direct_hash_lookup(stack, id) == {e \in stack : e.id = id}
direct_hash_count(stack) == Cardinality(stack)

\* a mutated insert: the entry is filed under the loop index, not the window id
direct_hash_insert_index(stack, id, x, y) == stack \cup {Entry(id - 1, x, y)}

direct_hash_insert(stack, id, x, y) == stack \cup {Entry(id, x, y)}

\* destroy_stack(): stack_destructor releases the surface and the window of each entry
destroy_stack(h, stack) ==
    Release(Release(h, "surface", Cardinality(stack)), "window", Cardinality(stack))

-----------------------------------------------------------------------------
(* df_image_sample: one image on n_windows windows *)

ImageArgs ==
    {[NoArgs EXCEPT !.files = 1, !.has_windows = TRUE, !.windows = w] : w \in WindowsArgs}
    \cup {[NoArgs EXCEPT !.files = f, !.help = h, !.logo = l] :
              f \in 0..1, h \in BOOLEAN, l \in BOOLEAN}

\* "-windows=": n_windows = strtol( option, NULL, 10 ); n_windows = CLAMP( n_windows, 1, 20 )
ParseWindows(a) ==
    IF a.has_windows THEN CLAMP(LongToInt(strtol(a.windows)), 1, 20) ELSE 1

\* dfb_shutdown() of df_image_sample.c
image_dfb_shutdown(h, stack) ==
    ReleaseAll(destroy_stack(h, stack),
               {"logo", "frame", "image", "event_buffer", "layer", "dfb"})

\* main(): usage check, DirectFBInit, the option loop
ImageParse ==
    /\ prog = "image" /\ pc = "start"
    /\ IF ArgCount(argv) < 1
       THEN /\ pc' = "exited" /\ exit_status' = 0
            /\ UNCHANGED <<held, last_fail, n_windows>>
       ELSE \E f \in 0..1 :
              LET ret == IF argv.help THEN 0 ELSE IF argv.files = 0 THEN 1 ELSE NoExit
              IN  /\ CheckedRun(<<Call("DirectFBInit", "none")>>, f,
                                IF ret = NoExit THEN "create" ELSE "exited")
                  /\ exit_status' = IF f = 0 THEN ret ELSE NoExit
                  /\ n_windows' = IF f = 0 /\ ~argv.help THEN ParseWindows(argv)
                                                          ELSE n_windows
    /\ UNCHANGED <<font_vars, data_vars, music_vars, prog, argv, window_stack, win_log, loop_i, wdsc,
                   last_evt, video>>

\* main(): the interfaces, the image provider, the frame surface and the logo
ImageCreate ==
    /\ prog = "image" /\ pc = "create"
    /\ \E f \in 0..6 :
         CheckedRun(<<Call("DirectFBCreate", "dfb"), Call("GetDisplayLayer", "layer"),
                      Call("CreateEventBuffer", "event_buffer"),
                      Call("CreateImageProvider", "image"),
                      Call("CreateSurface(frame)", "frame")>>
                    \o (IF argv.logo THEN <<Call("CreateSurface(logo)", "logo")>> ELSE <<>>),
                    f, "create_stack")
    /\ loop_i' = 0
    /\ wdsc' = [posx |-> 0, posy |-> 0]
    /\ UNCHANGED <<font_vars, data_vars, music_vars, prog, argv, exit_status, n_windows, window_stack,
                   win_log, last_evt, video>>

\* create_stack(): one turn of the loop
ImageCreateWindow ==
    /\ prog = "image" /\ pc = "create_stack" /\ loop_i < n_windows
    /\ \E f \in 0..3 :
         /\ CheckedRun(<<Call("CreateWindow", "window"), Call("GetSurface", "surface"),
                         Call("AttachEventBuffer", "none")>>, f, "create_stack")
         /\ IF f = 0
            THEN LET id == GetID(win_log)
                 IN  /\ window_stack' = direct_hash_insert(window_stack, id,
                                                           wdsc.posx, wdsc.posy)
                     /\ win_log' = Append(win_log,
                                          [id |-> id, posx |-> wdsc.posx, posy |-> wdsc.posy])
                     /\ loop_i' = loop_i + 1
                     /\ wdsc' = [posx |-> wdsc.posx + 10, posy |-> wdsc.posy + 5]
            ELSE UNCHANGED <<window_stack, win_log, loop_i, wdsc>>
    /\ UNCHANGED <<font_vars, data_vars, music_vars, prog, argv, exit_status, n_windows, last_evt, video>>

\* main(): image->RenderTo (its result is not looked at), the first blit
ImageRender ==
    /\ prog = "image" /\ pc = "create_stack" /\ loop_i >= n_windows
    /\ \E ret \in Results :
         last_fail' = IF ret = DFB_OK THEN last_fail ELSE Fail("RenderTo", FALSE)
    /\ pc' = "main_loop"
    /\ UNCHANGED <<font_vars, data_vars, music_vars, prog, argv, exit_status, held, n_windows,
                   window_stack, win_log, loop_i, wdsc, last_evt, video>>

\* remove_window( id ) of the one-media samples: the registry and the handles after it
remove_window(h, stack, id) ==
    LET found == direct_hash_lookup(stack, id)
    IN  [held  |-> IF found = {} THEN h
                   ELSE Release(Release(h, "surface", 1), "window", 1),
         stack |-> stack \ found,
         found |-> found /= {}]

\* main loop: one event taken from the event buffer
ImageEvent ==
    /\ prog = "image" /\ pc = "main_loop"
    /\ \E evt \in Events(ImageKeys, {FALSE}) :
         /\ last_evt' = evt
         /\ IF IsQuitKeyDown(evt)
            THEN /\ held' = image_dfb_shutdown(held, window_stack)
                 /\ pc' = "exited" /\ exit_status' = 42
                 /\ UNCHANGED <<window_stack, n_windows>>
            ELSE IF evt.type = "DWET_CLOSE"
            THEN LET r == remove_window(held, window_stack, evt.window_id)
                 IN  /\ window_stack' = r.stack
                     /\ n_windows' = IF r.found THEN n_windows - 1 ELSE n_windows
                     /\ IF r.found /\ n_windows - 1 <= 0
                        THEN /\ held' = image_dfb_shutdown(r.held, r.stack)
                             /\ pc' = "exited" /\ exit_status' = 42
                        ELSE /\ held' = r.held
                             /\ UNCHANGED <<pc, exit_status>>
            ELSE UNCHANGED <<held, pc, exit_status, window_stack, n_windows>>
    /\ UNCHANGED <<font_vars, data_vars, music_vars, prog, argv, last_fail, win_log, loop_i, wdsc, video>>

ImageNext == ImageParse \/ ImageCreate \/ ImageCreateWindow \/ ImageRender \/ ImageEvent

-----------------------------------------------------------------------------
(* df_video_sample: one video on n_windows windows *)

\* the command lines of the video player: "-windows=" (together with --no-logo)
\* with no number, in range, above 20 and beyond the int range; a file with and
\* without the logo, --help
VideoArgs ==
    {[NoArgs EXCEPT !.files = 1, !.has_windows = TRUE, !.windows = w, !.logo = FALSE] :
        w \in {<<>>, <<"2">>, <<"3">>, <<"2", "1">>,
               <<"4", "2", "9", "4", "9", "6", "7", "2", "9", "9">>}}
    \cup {[NoArgs EXCEPT !.files = f, !.help = h, !.logo = l] :
              f \in 0..1, h \in BOOLEAN, l \in BOOLEAN}

\* the capability sets a provider reports (DVCAPS_INTERACTIVE is what main() tests
\* before it lets Meta+I switch the input interactivity)
CapsSets ==
    {{}, {"DVCAPS_INTERACTIVE"},
     {"DVCAPS_BRIGHTNESS", "DVCAPS_HUE"},
     {"DVCAPS_INTERACTIVE", "DVCAPS_SEEK", "DVCAPS_SPEED", "DVCAPS_BRIGHTNESS",
      "DVCAPS_HUE"}}

\* what one pass of the main loop asked of the video provider: the call, the
\* value the provider reported before it and the value handed to the provider
NoOp == [call |-> "none", before |-> 0, after |-> 0]
Op(c, b, a) == [call |-> c, before |-> b, after |-> a]

\* progress: logo_progress (under key 0) or the progress of the registry
\* entries (under the window ids); 0 where nothing is recorded
NoVideo == [caps |-> {}, i |-> FALSE, flags |-> {}, op |-> NoOp,
            progress |-> [x \in {} |-> 0]]

\* the lengths and positions GetLength() and GetPos() may report to the logo
\* progress, in a common unit: the start, one eighth, the end, no length
PosLenInputs ==
    {[pos |-> 0, len |-> 8], [pos |-> 1, len |-> 8], [pos |-> 8, len |-> 8],
     [pos |-> 5, len |-> 0]}

\* the width of the logo of a build: dfblogo_desc.width in the single-window
\* player, tinylogo_desc.width in the one-window-per-file player
LogoWidths(p) == IF p = "video" THEN {97} ELSE {40}

\* a mutated progress: the 0.5 is not added
progress_of_truncated(pos, len) ==
    IF len > 0 /\ pos > 0 THEN (pos * 100) \div len ELSE 0

\* "if (len > 0.0 && pos > 0.0) progress = pos * 100.0 / len + 0.5; else
\* progress = 0", the double converted to int
progress_of(pos, len) ==
    IF len > 0 /\ pos > 0 THEN (pos * 200 + len) \div (2 * len) ELSE 0

\* the progress recorded under key x
ProgressAt(v, x) == IF x \in DOMAIN v.progress THEN v.progress[x] ELSE 0

\* frame_cb(): the elapsed and the remaining part of a logo of the given width
logo_rect(width, progress) ==
    LET w0 == (width * progress) \div 100
    IN  <<[x |-> 0, w |-> w0], [x |-> w0, w |-> width - w0]>>

\* the colour adjustments GetColorAdjustment() may report (u16 components)
AdjInputs ==
    {[brightness |-> 0, contrast |-> 256, hue |-> 65535, saturation |-> 32768],
     [brightness |-> 256, contrast |-> 0, hue |-> 65300, saturation |-> 65535],
     [brightness |-> 65535, contrast |-> 32768, hue |-> 257, saturation |-> 0]}
\* the positions GetPos() may report, in seconds
PosInputs == {0, 4, 10, 25}
\* the speeds GetSpeed() may report (an unset "double speed" included)
SpeedInputs == {0, 1, 2}
\* the states GetStatus() may report
StatusInputs == {"DVSTATE_PLAY", "DVSTATE_STOP", "DVSTATE_FINISHED"}

\* the colour key of the switch: its capability and its adjustment flag
ColorKeys == {"DIKS_SMALL_B", "DIKS_SMALL_C", "DIKS_SMALL_H", "DIKS_SMALL_S"}
ColorOf(k) ==
    CASE k = "DIKS_SMALL_B" -> [cap |-> "DVCAPS_BRIGHTNESS", flag |-> "DCAF_BRIGHTNESS"]
      [] k = "DIKS_SMALL_C" -> [cap |-> "DVCAPS_CONTRAST", flag |-> "DCAF_CONTRAST"]
      [] k = "DIKS_SMALL_H" -> [cap |-> "DVCAPS_HUE", flag |-> "DCAF_HUE"]
      [] k = "DIKS_SMALL_S" -> [cap |-> "DVCAPS_SATURATION", flag |-> "DCAF_SATURATION"]

\* a mutated adjustment: every component is stepped, flagged or not
Adjusted_all(adj, fl, step) ==
    [brightness |-> CLAMP(adj.brightness + step, 0, 65535),
     contrast   |-> CLAMP(adj.contrast + step, 0, 65535),
     hue        |-> CLAMP(adj.hue + step, 0, 65535),
     saturation |-> CLAMP(adj.saturation + step, 0, 65535)]

\* adjust_color(): "if (flags & DCAF_X) adj.x = CLAMP( adj.x + step, 0, 0xffff )"
Adjusted(adj, fl, step) ==
    [brightness |-> IF "DCAF_BRIGHTNESS" \in fl
                    THEN CLAMP(adj.brightness + step, 0, 65535) ELSE adj.brightness,
     contrast   |-> IF "DCAF_CONTRAST" \in fl
                    THEN CLAMP(adj.contrast + step, 0, 65535) ELSE adj.contrast,
     hue        |-> IF "DCAF_HUE" \in fl
                    THEN CLAMP(adj.hue + step, 0, 65535) ELSE adj.hue,
     saturation |-> IF "DCAF_SATURATION" \in fl
                    THEN CLAMP(adj.saturation + step, 0, 65535) ELSE adj.saturation]

\* adjust_color( flags, step ): nothing is set when GetColorAdjustment() fails
adjust_color(fl, step) ==
    {Op("GetColorAdjustment", 0, 0)}
    \cup {Op("SetColorAdjustment", a, Adjusted(a, fl, step)) : a \in AdjInputs}

\* seek( step ): "pos += step; if (pos < 0.0) pos = 0.0; SeekTo( pos )"
seek(step) ==
    {Op("SeekTo", p, IF p + step < 0 THEN 0 ELSE p + step) : p \in PosInputs}

\* a mutated toggle: a paused provider is left paused
pause_resume_stay ==
    {Op("SetSpeed", sp, 0) : sp \in SpeedInputs}

\* "speed = (speed != 0.0) ? 0.0 : 1.0; SetSpeed( speed )"
pause_resume ==
    {Op("SetSpeed", sp, IF sp /= 0 THEN 0 ELSE 1) : sp \in SpeedInputs}

\* "if (status != DVSTATE_PLAY) PlayTo(...) else Stop()"
stop_start ==
    {Op(IF st /= "DVSTATE_PLAY" THEN "PlayTo" ELSE "Stop", st, st) : st \in StatusInputs}

\* the colour flags after a key event: set on key-down, cleared on key-up, when
\* the provider has the capability
KeyFlags(v, evt) ==
    LET k == DFB_LOWER_CASE(evt.key_symbol)
    IN  IF k \in ColorKeys /\ ColorOf(k).cap \in v.caps
        THEN IF evt.type = "DWET_KEYDOWN" THEN v.flags \cup {ColorOf(k).flag}
                                          ELSE v.flags \ {ColorOf(k).flag}
        ELSE v.flags

\* df_video_sample.c, the key-down switch below the quit keys: the calls one
\* key-down may make on the provider
VideoKeyDown(v, k) ==
    CASE k \in {"DIKS_SPACE", "DIKS_SMALL_P"} ->
             IF "DVCAPS_SPEED" \in v.caps THEN pause_resume ELSE stop_start
      [] k = "DIKS_ENTER" -> stop_start
      [] k = "DIKS_CURSOR_LEFT" ->
             IF v.flags /= {} THEN adjust_color(v.flags, -257)
             ELSE IF "DVCAPS_SEEK" \in v.caps THEN seek(-10) ELSE {NoOp}
      [] k = "DIKS_CURSOR_RIGHT" ->
             IF v.flags /= {} THEN adjust_color(v.flags, 257)
             ELSE IF "DVCAPS_SEEK" \in v.caps THEN seek(10) ELSE {NoOp}
      [] OTHER -> {NoOp}

\* the one-window-per-file player, pause_resume( id ), stop_start( id ), seek( id, step ): each returns when the
\* provider's getter fails
multi_pause_resume == {Op("GetSpeed", 0, 0)} \cup pause_resume
multi_stop_start == {Op("GetStatus", 0, 0)} \cup stop_start
multi_seek(step) == {Op("GetPos", 0, 0)} \cup seek(step)

\* the key-down switch of the video player below the quit keys; found: the
\* window of the event is registered (every helper returns at once otherwise)
VideoMultiKeyDown(v, k, found) ==
    IF ~found THEN {NoOp}
    ELSE CASE k \in {"DIKS_SPACE", "DIKS_SMALL_P"} -> multi_pause_resume
           [] k = "DIKS_ENTER" -> multi_stop_start
           [] k = "DIKS_CURSOR_LEFT" ->
                  IF v.flags /= {} THEN adjust_color(v.flags, -257) ELSE multi_seek(-10)
           [] k = "DIKS_CURSOR_RIGHT" ->
                  IF v.flags /= {} THEN adjust_color(v.flags, 257) ELSE multi_seek(10)
           [] OTHER -> {NoOp}

\* "i = !i" of the key-down case: Meta+I on an interactive provider
ToggleInteractive(v, evt) ==
    IF /\ "DVCAPS_INTERACTIVE" \in v.caps
       /\ evt.meta
       /\ DFB_LOWER_CASE(evt.key_symbol) = "DIKS_SMALL_I"
    THEN [v EXCEPT !.i = ~v.i] ELSE v

\* the player after one event that does not end it: the interactivity, the
\* colour flags and the call on the provider; an interactive player forwards
\* key and pointer events with SendEvent().  multi: the one-window-per-file
\* player, where found tells that the window of the event is registered
VideoHandled(v, evt, multi, found) ==
    LET t == IF evt.type = "DWET_KEYDOWN" THEN ToggleInteractive(v, evt) ELSE v
        k == DFB_LOWER_CASE(evt.key_symbol)
    IN  IF evt.type \in {"DWET_KEYDOWN", "DWET_KEYUP", "DWET_MOTION"} /\ t.i
        THEN {[t EXCEPT !.op = IF multi /\ ~found THEN NoOp ELSE Op("SendEvent", 0, 0)]}
        ELSE IF evt.type = "DWET_KEYDOWN"
        THEN {[t EXCEPT !.flags = KeyFlags(t, evt), !.op = o] :
                 o \in IF multi THEN VideoMultiKeyDown(t, k, found) ELSE VideoKeyDown(t, k)}
        ELSE IF evt.type = "DWET_KEYUP"
        THEN {[t EXCEPT !.flags = KeyFlags(t, evt), !.op = NoOp]}
        ELSE {[t EXCEPT !.op = NoOp]}

\* dfb_shutdown() of df_video_sample.c
video_dfb_shutdown(h, stack) ==
    ReleaseAll(destroy_stack(h, stack),
               {"logo", "frame", "video", "event_buffer", "layer", "dfb"})

\* main(): usage check, DirectFBInit, the option loop
VideoParse ==
    /\ prog = "video" /\ pc = "start"
    /\ IF ArgCount(argv) < 1
       THEN /\ pc' = "exited" /\ exit_status' = 0
            /\ UNCHANGED <<held, last_fail, n_windows>>
       ELSE \E f \in 0..1 :
              LET ret == IF argv.help THEN 0 ELSE IF argv.files = 0 THEN 1 ELSE NoExit
              IN  /\ CheckedRun(<<Call("DirectFBInit", "none")>>, f,
                                IF ret = NoExit THEN "create" ELSE "exited")
                  /\ exit_status' = IF f = 0 THEN ret ELSE NoExit
                  /\ n_windows' = IF f = 0 /\ ~argv.help THEN ParseWindows(argv)
                                                          ELSE n_windows
    /\ UNCHANGED <<font_vars, data_vars, music_vars, prog, argv, window_stack, win_log, loop_i, wdsc,
                   last_evt, video>>

\* main(): the interfaces, the video provider and its capabilities, the frame
\* surface and the logo
VideoCreate ==
    /\ prog = "video" /\ pc = "create"
    /\ \E f \in 0..6 :
         CheckedRun(<<Call("DirectFBCreate", "dfb"), Call("GetDisplayLayer", "layer"),
                      Call("CreateEventBuffer", "event_buffer"),
                      Call("CreateVideoProvider", "video"),
                      Call("CreateSurface(frame)", "frame")>>
                    \o (IF argv.logo THEN <<Call("CreateSurface(logo)", "logo")>> ELSE <<>>),
                    f, "create_stack")
    /\ \E c \in CapsSets : video' = [video EXCEPT !.caps = c, !.i = FALSE]
    /\ loop_i' = 0
    /\ wdsc' = [posx |-> 0, posy |-> 0]
    /\ UNCHANGED <<font_vars, data_vars, music_vars, prog, argv, exit_status, n_windows, window_stack,
                   win_log, last_evt>>

\* create_stack(): one turn of the loop
VideoCreateWindow ==
    /\ prog = "video" /\ pc = "create_stack" /\ loop_i < n_windows
    /\ \E f \in 0..3 :
         /\ CheckedRun(<<Call("CreateWindow", "window"), Call("GetSurface", "surface"),
                         Call("AttachEventBuffer", "none")>>, f, "create_stack")
         /\ IF f = 0
            THEN LET id == GetID(win_log)
                 IN  /\ window_stack' = direct_hash_insert(window_stack, id,
                                                           wdsc.posx, wdsc.posy)
                     /\ win_log' = Append(win_log,
                                          [id |-> id, posx |-> wdsc.posx, posy |-> wdsc.posy])
                     /\ loop_i' = loop_i + 1
                     /\ wdsc' = [posx |-> wdsc.posx + 10, posy |-> wdsc.posy + 5]
            ELSE UNCHANGED <<window_stack, win_log, loop_i, wdsc>>
    /\ UNCHANGED <<font_vars, data_vars, music_vars, prog, argv, exit_status, n_windows, last_evt, video>>

\* main(): SetPlaybackFlags and PlayTo (their results are not looked at)
VideoPlay ==
    /\ prog = "video" /\ pc = "create_stack" /\ loop_i >= n_windows
    /\ \E ret \in Results :
         last_fail' = IF ret = DFB_OK THEN last_fail ELSE Fail("PlayTo", FALSE)
    /\ pc' = "main_loop"
    /\ UNCHANGED <<font_vars, data_vars, music_vars, prog, argv, exit_status, held, n_windows,
                   window_stack, win_log, loop_i, wdsc, last_evt, video>>


\* main loop: one event taken from the event buffer
VideoEvent ==
    /\ prog = "video" /\ pc = "main_loop"
    /\ \E evt \in VideoEvents :
         /\ last_evt' = evt
         /\ video' \in VideoHandled(video, evt, FALSE, TRUE)
         /\ IF evt.type = "DWET_KEYDOWN" /\ ~video'.i /\ IsQuitKeyDown(evt)
            THEN /\ held' = video_dfb_shutdown(held, window_stack)
                 /\ pc' = "exited" /\ exit_status' = 42
                 /\ UNCHANGED <<window_stack, n_windows>>
            ELSE IF evt.type = "DWET_CLOSE"
            THEN LET r == remove_window(held, window_stack, evt.window_id)
                 IN  /\ window_stack' = r.stack
                     /\ n_windows' = IF r.found THEN n_windows - 1 ELSE n_windows
                     /\ IF r.found /\ n_windows - 1 <= 0
                        THEN /\ held' = video_dfb_shutdown(r.held, r.stack)
                             /\ pc' = "exited" /\ exit_status' = 42
                        ELSE /\ held' = r.held
                             /\ UNCHANGED <<pc, exit_status>>
            ELSE UNCHANGED <<held, pc, exit_status, window_stack, n_windows>>
    /\ UNCHANGED <<font_vars, data_vars, music_vars, prog, argv, last_fail, win_log, loop_i, wdsc>>

\* main loop with the logo: WaitForEventWithTimeout() returns DFB_TIMEOUT,
\* logo_progress is computed from GetLength() and GetPos()
VideoTimeout ==
    /\ prog = "video" /\ pc = "main_loop" /\ argv.logo
    /\ \E in \in PosLenInputs :
         LET pr == [x \in {0} |-> progress_of(in.pos, in.len)]
         IN  video' = [video EXCEPT !.progress = pr,
                                    !.op = Op("GetLength", [x \in {0} |-> in], pr)]
    /\ UNCHANGED <<font_vars, data_vars, music_vars, prog, argv, pc, exit_status, held,
                   last_fail, last_evt, n_windows, window_stack, win_log, loop_i, wdsc>>

\* frame_cb() on the provider's thread: the two rectangles of the logo
VideoFrame ==
    /\ prog = "video" /\ pc = "main_loop" /\ argv.logo
    /\ \E width \in LogoWidths(prog) :
         video' = [video EXCEPT !.op = Op("Blit", [width |-> width, progress |-> ProgressAt(video, 0)],
                                          logo_rect(width, ProgressAt(video, 0)))]
    /\ UNCHANGED <<font_vars, data_vars, music_vars, prog, argv, pc, exit_status, held,
                   last_fail, last_evt, n_windows, window_stack, win_log, loop_i, wdsc>>

VideoNext ==
    VideoParse \/ VideoCreate \/ VideoCreateWindow \/ VideoPlay \/ VideoEvent
    \/ VideoTimeout \/ VideoFrame

-----------------------------------------------------------------------------
(* The one-window-per-file image viewer (src/unnamed/part_000) *)

FilesArgs ==
    {[NoArgs EXCEPT !.files = f, !.help = h, !.logo = l] :
        f \in 0..MaxFiles, h \in BOOLEAN, l \in BOOLEAN}

\* a mutated window position: the count is taken after the insertion
StackPosition_after(stack) ==
    [posx |-> 32 * (direct_hash_count(stack) + 1), posy |-> 18 * (direct_hash_count(stack) + 1)]

\* add_window(): wdsc.posx = 32 * direct_hash_count(), wdsc.posy = 18 * direct_hash_count()
StackPosition(stack) ==
    [posx |-> 32 * direct_hash_count(stack), posy |-> 18 * direct_hash_count(stack)]

\* dfb_shutdown() of the image viewer: the entries of its registry are the windows
imagemulti_dfb_shutdown(h, stack) ==
    ReleaseAll(Release(h, "window", Cardinality(stack)),
               {"logo", "event_buffer", "layer", "dfb"})

\* main(): usage check, DirectFBInit, the option loop
ImageMultiParse ==
    /\ prog = "imagemulti" /\ pc = "start"
    /\ IF ArgCount(argv) < 1
       THEN /\ pc' = "exited" /\ exit_status' = 0
            /\ UNCHANGED <<held, last_fail, n_windows>>
       ELSE \E f \in 0..1 :
              LET ret == IF argv.help THEN 0 ELSE IF argv.files = 0 THEN 1 ELSE NoExit
              IN  /\ CheckedRun(<<Call("DirectFBInit", "none")>>, f,
                                IF ret = NoExit THEN "create" ELSE "exited")
                  /\ exit_status' = IF f = 0 THEN ret ELSE NoExit
                  /\ n_windows' = IF f = 0 /\ ~argv.help THEN argv.files ELSE n_windows
    /\ UNCHANGED <<font_vars, data_vars, music_vars, prog, argv, window_stack, win_log, loop_i, wdsc,
                   last_evt, video>>

\* main(): the interfaces and the logo
ImageMultiCreate ==
    /\ prog = "imagemulti" /\ pc = "create"
    /\ \E f \in 0..4 :
         CheckedRun(<<Call("DirectFBCreate", "dfb"), Call("GetDisplayLayer", "layer"),
                      Call("CreateEventBuffer", "event_buffer")>>
                    \o (IF argv.logo THEN <<Call("CreateSurface(logo)", "logo")>> ELSE <<>>),
                    f, "create_stack")
    /\ loop_i' = 0
    /\ UNCHANGED <<font_vars, data_vars, music_vars, prog, argv, exit_status, n_windows, window_stack,
                   win_log, wdsc, last_evt, video>>

\* main(): one file: its image provider, add_window(), the provider released
ImageMultiAddWindow ==
    /\ prog = "imagemulti" /\ pc = "create_stack" /\ loop_i < n_windows
    /\ \E f \in 0..4 :
         /\ CheckedRun(<<Call("CreateImageProvider", IF f = 0 THEN "none" ELSE "image"),
                         Call("CreateWindow", "window"),
                         Call("GetSurface", IF f = 0 THEN "none" ELSE "surface"),
                         Call("AttachEventBuffer", "none")>>, f,
                       IF loop_i + 1 < n_windows THEN "create_stack" ELSE "main_loop")
         /\ IF f = 0
            THEN LET id  == GetID(win_log)
                     pos == StackPosition(window_stack)
                 IN  /\ window_stack' = direct_hash_insert(window_stack, id,
                                                           pos.posx, pos.posy)
                     /\ win_log' = Append(win_log,
                                          [id |-> id, posx |-> pos.posx, posy |-> pos.posy])
                     /\ wdsc' = pos
                     /\ loop_i' = loop_i + 1
            ELSE UNCHANGED <<window_stack, win_log, loop_i, wdsc>>
    /\ UNCHANGED <<font_vars, data_vars, music_vars, prog, argv, exit_status, n_windows, last_evt, video>>

\* remove_window( id ) of the image viewer: the entry is the window
imagemulti_remove_window(h, stack, id) ==
    LET found == direct_hash_lookup(stack, id)
    IN  [held  |-> IF found = {} THEN h ELSE Release(h, "window", 1),
         stack |-> stack \ found,
         found |-> found /= {}]

\* main loop: one event taken from the event buffer; "return 42" runs the
\* registered dfb_shutdown()
ImageMultiEvent ==
    /\ prog = "imagemulti" /\ pc = "main_loop"
    /\ \E evt \in Events(ImageKeys, {FALSE}) :
         /\ last_evt' = evt
         /\ IF IsQuitKeyDown(evt)
            THEN /\ held' = imagemulti_dfb_shutdown(held, window_stack)
                 /\ pc' = "exited" /\ exit_status' = 42
                 /\ UNCHANGED <<window_stack, n_windows>>
            ELSE IF evt.type = "DWET_CLOSE"
            THEN LET r == imagemulti_remove_window(held, window_stack, evt.window_id)
                 IN  /\ window_stack' = r.stack
                     /\ n_windows' = IF r.found THEN n_windows - 1 ELSE n_windows
                     /\ IF r.found /\ n_windows - 1 <= 0
                        THEN /\ held' = imagemulti_dfb_shutdown(r.held, r.stack)
                             /\ pc' = "exited" /\ exit_status' = 42
                        ELSE /\ held' = r.held
                             /\ UNCHANGED <<pc, exit_status>>
            ELSE UNCHANGED <<held, pc, exit_status, window_stack, n_windows>>
    /\ UNCHANGED <<font_vars, data_vars, music_vars, prog, argv, last_fail, win_log, loop_i, wdsc, video>>

ImageMultiNext ==
    ImageMultiParse \/ ImageMultiCreate \/ ImageMultiAddWindow \/ ImageMultiEvent

-----------------------------------------------------------------------------
(* The one-window-per-file video player (src/src/df_databuffer.c, second program) *)

\* stack_destructor / remove_window: the provider, the surface and the window of
\* n entries are released
ReleaseEntries(h, n) ==
    Release(Release(Release(h, "video", n), "surface", n), "window", n)

\* the command lines of the one-window-per-file video player: files, --help,
\* --no-logo (the logo on up to two windows)
VideoFilesArgs ==
    {a \in FilesArgs : a.logo => a.files <= 2}

\* the progress of the entries of the registry: 0 for a new entry
\* (D_CALLOC), none for a removed one
EntryProgress(v, stack) ==
    [x \in {e.id : e \in stack} |-> ProgressAt(v, x)]

\* dfb_shutdown() of the video player
videomulti_dfb_shutdown(h, stack) ==
    ReleaseAll(ReleaseEntries(h, Cardinality(stack)),
               {"logo", "event_buffer", "layer", "dfb"})

\* main(): usage check, DirectFBInit, the option loop
VideoMultiParse ==
    /\ prog = "videomulti" /\ pc = "start"
    /\ IF ArgCount(argv) < 1
       THEN /\ pc' = "exited" /\ exit_status' = 0
            /\ UNCHANGED <<held, last_fail, n_windows>>
       ELSE \E f \in 0..1 :
              LET ret == IF argv.help THEN 0 ELSE IF argv.files = 0 THEN 1 ELSE NoExit
              IN  /\ CheckedRun(<<Call("DirectFBInit", "none")>>, f,
                                IF ret = NoExit THEN "create" ELSE "exited")
                  /\ exit_status' = IF f = 0 THEN ret ELSE NoExit
                  /\ n_windows' = IF f = 0 /\ ~argv.help THEN argv.files ELSE n_windows
    /\ UNCHANGED <<font_vars, data_vars, music_vars, prog, argv, window_stack, win_log, loop_i, wdsc,
                   last_evt, video>>

\* main(): the interfaces and the logo
VideoMultiCreate ==
    /\ prog = "videomulti" /\ pc = "create"
    /\ \E f \in 0..4 :
         CheckedRun(<<Call("DirectFBCreate", "dfb"), Call("GetDisplayLayer", "layer"),
                      Call("CreateEventBuffer", "event_buffer")>>
                    \o (IF argv.logo THEN <<Call("CreateSurface(logo)", "logo")>> ELSE <<>>),
                    f, "create_stack")
    /\ loop_i' = 0
    /\ UNCHANGED <<font_vars, data_vars, music_vars, prog, argv, exit_status, n_windows, window_stack,
                   win_log, wdsc, last_evt, video>>

\* main(): one file: its video provider and capabilities, add_window() with the
\* playback started; after the last file "i = 0"
VideoMultiAddWindow ==
    /\ prog = "videomulti" /\ pc = "create_stack" /\ loop_i < n_windows
    /\ \E f \in 0..4 :
         /\ CheckedRun(<<Call("CreateVideoProvider", "video"),
                         Call("CreateWindow", "window"), Call("GetSurface", "surface"),
                         Call("AttachEventBuffer", "none")>>, f,
                       IF loop_i + 1 < n_windows THEN "create_stack" ELSE "main_loop")
         /\ IF f = 0
            THEN LET id  == GetID(win_log)
                     pos == StackPosition(window_stack)
                 IN  /\ window_stack' = direct_hash_insert(window_stack, id,
                                                           pos.posx, pos.posy)
                     /\ win_log' = Append(win_log,
                                          [id |-> id, posx |-> pos.posx, posy |-> pos.posy])
                     /\ wdsc' = pos
                     /\ loop_i' = loop_i + 1
            ELSE UNCHANGED <<window_stack, win_log, loop_i, wdsc>>
    /\ \E c \in CapsSets :
         video' = [video EXCEPT !.caps = c, !.i = FALSE,
                                !.progress = EntryProgress(video, window_stack')]
    /\ UNCHANGED <<font_vars, data_vars, music_vars, prog, argv, exit_status, n_windows, last_evt>>

\* remove_window( id ) of the video player
videomulti_remove_window(h, stack, id) ==
    LET found == direct_hash_lookup(stack, id)
    IN  [held  |-> IF found = {} THEN h ELSE ReleaseEntries(h, 1),
         stack |-> stack \ found,
         found |-> found /= {}]

\* main loop: one event taken from the event buffer; "return 42" runs the
\* registered dfb_shutdown()
VideoMultiEvent ==
    /\ prog = "videomulti" /\ pc = "main_loop"
    /\ \E evt \in VideoEvents :
         /\ last_evt' = evt
         /\ LET found == direct_hash_lookup(window_stack, evt.window_id) /= {}
             IN  \E v \in VideoHandled(video, evt, TRUE, found) :
                   /\ IF evt.type = "DWET_KEYDOWN" /\ ~v.i /\ IsQuitKeyDown(evt)
                      THEN /\ held' = videomulti_dfb_shutdown(held, window_stack)
                           /\ pc' = "exited" /\ exit_status' = 42
                           /\ UNCHANGED <<window_stack, n_windows>>
                      ELSE IF evt.type = "DWET_CLOSE"
                      THEN LET r == videomulti_remove_window(held, window_stack,
                                                             evt.window_id)
                           IN  /\ window_stack' = r.stack
                               /\ n_windows' = IF r.found THEN n_windows - 1 ELSE n_windows
                               /\ IF r.found /\ n_windows - 1 <= 0
                                  THEN /\ held' = videomulti_dfb_shutdown(r.held, r.stack)
                                       /\ pc' = "exited" /\ exit_status' = 42
                                  ELSE /\ held' = r.held
                                       /\ UNCHANGED <<pc, exit_status>>
                      ELSE UNCHANGED <<held, pc, exit_status, window_stack, n_windows>>
                   /\ video' = [v EXCEPT !.progress = EntryProgress(v, window_stack')]
    /\ UNCHANGED <<font_vars, data_vars, music_vars, prog, argv, last_fail, win_log, loop_i, wdsc>>

\* main loop with the logo: WaitForEventWithTimeout() returns DFB_TIMEOUT,
\* logo_progress() is run on every entry of the registry
VideoMultiTimeout ==
    /\ prog = "videomulti" /\ pc = "main_loop" /\ argv.logo
    /\ \E in \in [{e.id : e \in window_stack} -> PosLenInputs] :
         LET pr == [x \in DOMAIN in |-> progress_of(in[x].pos, in[x].len)]
         IN  video' = [video EXCEPT !.progress = pr, !.op = Op("GetLength", in, pr)]
    /\ UNCHANGED <<font_vars, data_vars, music_vars, prog, argv, pc, exit_status, held,
                   last_fail, last_evt, n_windows, window_stack, win_log, loop_i, wdsc>>

\* frame_cb( entry ) on the thread of the entry's provider: the two rectangles
\* of the logo
VideoMultiFrame ==
    /\ prog = "videomulti" /\ pc = "main_loop" /\ argv.logo
    /\ \E e \in window_stack, width \in LogoWidths(prog) :
         video' = [video EXCEPT !.op = Op("Blit", [width |-> width, progress |-> ProgressAt(video, e.id)],
                                          logo_rect(width, ProgressAt(video, e.id)))]
    /\ UNCHANGED <<font_vars, data_vars, music_vars, prog, argv, pc, exit_status, held,
                   last_fail, last_evt, n_windows, window_stack, win_log, loop_i, wdsc>>

VideoMultiNext ==
    VideoMultiParse \/ VideoMultiCreate \/ VideoMultiAddWindow \/ VideoMultiEvent
    \/ VideoMultiTimeout \/ VideoMultiFrame

-----------------------------------------------------------------------------
(* df_font_sample: the glyphs of the fonts given on the command line *)

\* the command lines of the font viewer: font files, --help; the first or the
\* second font file may be one that cannot be loaded
FontArgs ==
    {[NoArgs EXCEPT !.files = f, !.help = h] : f \in 0..MaxFiles, h \in BOOLEAN}
    \cup {a \in {[NoArgs EXCEPT !.files = f, !.unloadable = {u}] :
                       f \in 1..MaxFiles, u \in 0..1} :
              \A u \in a.unloadable : u < a.files}

\* dfb_shutdown() of df_font_sample.c
font_dfb_shutdown(h) ==
    ReleaseAll(h, {"event_buffer", "surface", "window", "layer", "dfb"})

\* main(): DirectFBInit, the option loop
FontParse ==
    /\ prog = "font" /\ pc = "start"
    /\ \E f \in 0..1 :
         LET ret == IF argv.help THEN 0 ELSE IF argv.files = 0 THEN 1 ELSE NoExit
         IN  /\ CheckedRun(<<Call("DirectFBInit", "none")>>, f,
                           IF ret = NoExit THEN "create" ELSE "exited")
             /\ exit_status' = IF f = 0 THEN ret ELSE NoExit
    /\ UNCHANGED <<win_vars, font_vars, data_vars, music_vars, prog, argv, last_evt>>

\* main(): the interfaces, the window, its surface and its event buffer
FontCreate ==
    /\ prog = "font" /\ pc = "create"
    /\ \E f \in 0..6 :
         CheckedRun(<<Call("DirectFBCreate", "dfb"), Call("GetDisplayLayer", "layer"),
                      Call("GetConfiguration", "none"), Call("CreateWindow", "window"),
                      Call("GetSurface", "surface"),
                      Call("CreateEventBuffer", "event_buffer")>>, f, "main_loop")
    /\ UNCHANGED <<win_vars, font_vars, data_vars, music_vars, prog, argv, exit_status,
                   last_evt>>

\* the checked calls of a page with the number of font handles held at each:
\* render_help_page() makes one, render_font_page() four (the fixed font is
\* released before the glyph loop)
HelpPageCalls == <<[site |-> "CreateFont(fixedfont)", fonts |-> 0]>>
FontPageCalls == <<[site |-> "CreateFont(fixedfont)", fonts |-> 0],
                   [site |-> "GetAscender", fonts |-> 2],
                   [site |-> "GetDescender", fonts |-> 2],
                   [site |-> "GetGlyphExtents", fonts |-> 1]>>

\* "if (update)" of the main loop: render_help_page() or render_font_page().
\* f is the checked call that fails (0: none).  Either page first creates its
\* fixed font from the selected font file under DFBCHECK: a file that cannot be
\* loaded fails there.  The font of the page itself is created without a
\* check: when that fails (open_fails), the message is drawn, the fixed font is
\* released and the page is left.  A page that returns has released every font
\* it created.
FontRender ==
    /\ prog = "font" /\ pc = "main_loop" /\ update = 1
    /\ LET calls == IF show_help = 1 THEN HelpPageCalls ELSE FontPageCalls
       IN  \E f \in 0..Len(calls), open_fails \in BOOLEAN :
             LET unchecked == show_help = 0 /\ open_fails /\ f /= 1
             IN  /\ open_fails => show_help = 0
                 /\ unchecked => f = 0
                 /\ current_font \in argv.unloadable => f = 1
                 /\ pc' = DFBCHECK(IF f = 0 THEN DFB_OK ELSE DFB_FAILURE, "events")
                 /\ held' = IF f = 0 THEN held
                                     ELSE [held EXCEPT !["font"] = @ + calls[f].fonts]
                 /\ last_fail' = IF f /= 0 THEN Fail(calls[f].site, TRUE)
                                 ELSE IF unchecked THEN Fail("CreateFont(font)", FALSE)
                                 ELSE last_fail
    /\ update' = 0
    /\ UNCHANGED <<win_vars, data_vars, music_vars, prog, argv, exit_status, last_evt,
                   show_help, current_font, glyphs_per_xline, glyphs_per_yline>>

\* main loop with nothing to draw: on to WaitForEvent
FontWait ==
    /\ prog = "font" /\ pc = "main_loop" /\ update = 0
    /\ pc' = "events"
    /\ UNCHANGED <<win_vars, font_vars, data_vars, music_vars, prog, argv, exit_status,
                   held, last_fail, last_evt>>

\* a mutated step to the next font: no wrap after the last font
next_font_nowrap(c, count) == c + 1

\* "if (++current_font >= fontfile_count) current_font = 0"
next_font(c, count) == IF c + 1 >= count THEN 0 ELSE c + 1

\* "if (--current_font < 0) current_font = fontfile_count - 1"
prev_font(c, count) == IF c - 1 < 0 THEN count - 1 ELSE c - 1

\* a mutated '-': the count is decremented whatever it is
fewer_glyphs_always(g) == g - 1

\* "if (glyphs_per_xline > 1) glyphs_per_xline--", the same for glyphs_per_yline
fewer_glyphs(g) == IF g > 1 THEN g - 1 ELSE g

\* a mutated redraw request: update is left as it is
request_redraw_never(changed, upd) == upd

\* "if (!show_help) { show_help = 1; update = 1; }" and
\* "if (show_help) { show_help = 0; update = 1; }": update after a change of show_help
request_redraw(changed, upd) == IF changed THEN 1 ELSE upd

\* the key-down switch of the main loop
FontKeyDown(key) ==
    CASE key \in {"DIKS_SPACE", "DIKS_CURSOR_UP"} ->
           /\ current_font' = next_font(current_font, argv.files)
           /\ update' = 1
           /\ UNCHANGED <<show_help, glyphs_per_xline, glyphs_per_yline>>
      [] key \in {"DIKS_BACKSPACE", "DIKS_CURSOR_DOWN"} ->
           /\ current_font' = prev_font(current_font, argv.files)
           /\ update' = 1
           /\ UNCHANGED <<show_help, glyphs_per_xline, glyphs_per_yline>>
      [] key \in {"DIKS_SMALL_H", "DIKS_F1", "DIKS_HELP"} ->
           /\ show_help' = 1
           /\ update' = request_redraw(show_help = 0, update)
           /\ UNCHANGED <<current_font, glyphs_per_xline, glyphs_per_yline>>
      [] key = "DIKS_MINUS_SIGN" ->
           /\ glyphs_per_xline' = fewer_glyphs(glyphs_per_xline)
           /\ glyphs_per_yline' = fewer_glyphs(glyphs_per_yline)
           /\ update' = 1
           /\ UNCHANGED <<show_help, current_font>>
      [] key = "DIKS_PLUS_SIGN" ->
           /\ glyphs_per_xline < MaxGlyphs
           /\ glyphs_per_xline' = glyphs_per_xline + 1
           /\ glyphs_per_yline' = glyphs_per_yline + 1
           /\ update' = 1
           /\ UNCHANGED <<show_help, current_font>>
      [] OTHER -> UNCHANGED font_vars

\* process event buffer: one event; a quit key returns 42 and the registered
\* dfb_shutdown() runs
FontEvent ==
    /\ prog = "font" /\ pc = "events"
    /\ \E evt \in Events(FontKeys, {FALSE}) :
         /\ last_evt' = evt
         /\ IF evt.type = "DWET_KEYUP"
            THEN /\ show_help' = 0
                 /\ update' = request_redraw(show_help = 1, update)
                 /\ UNCHANGED <<current_font, glyphs_per_xline, glyphs_per_yline,
                                held, pc, exit_status>>
            ELSE IF IsQuitKeyDown(evt)
            THEN /\ held' = font_dfb_shutdown(held)
                 /\ pc' = "exited" /\ exit_status' = 42
                 /\ UNCHANGED font_vars
            ELSE IF evt.type = "DWET_KEYDOWN"
            THEN /\ FontKeyDown(DFB_LOWER_CASE(evt.key_symbol))
                 /\ UNCHANGED <<held, pc, exit_status>>
            ELSE UNCHANGED <<font_vars, held, pc, exit_status>>
    /\ UNCHANGED <<win_vars, data_vars, music_vars, prog, argv, last_fail>>

\* GetEvent returns DFB_BUFFEREMPTY: the inner loop ends, the main loop goes round
FontBufferEmpty ==
    /\ prog = "font" /\ pc = "events"
    /\ pc' = "main_loop"
    /\ last_fail' = Fail("GetEvent", FALSE)
    /\ UNCHANGED <<win_vars, font_vars, data_vars, music_vars, prog, argv, exit_status,
                   held, last_evt>>

FontNext == FontParse \/ FontCreate \/ FontRender \/ FontWait \/ FontEvent
            \/ FontBufferEmpty

-----------------------------------------------------------------------------
(* df_databuffer: a font and a media file loaded from a file, a memory and a *)
(* streamed data buffer                                                       *)

DataArgs ==
    {[NoArgs EXCEPT !.files = f, !.help = h, !.use_image = i, !.use_video = v] :
        f \in {0, 2}, h \in BOOLEAN, i \in BOOLEAN, v \in BOOLEAN}

ThreadNames == {"Font Streamer", "Media Streamer"}
\* what one round of a streamer did: the length GetLength() reported, the bytes
\* handed to PutData() (0: none) and the length of the buffer after it
NoPut == [seen |-> 0, bytes |-> 0, after |-> 0]
\* fd: the file of the streamer, "open" from direct_file_open() to
\* direct_file_close()
NoThread == [state |-> "none", usec |-> 0, left |-> 0, put |-> NoPut, fd |-> "none"]
Tests == <<"test_file", "test_memory", "test_streamed">>

\* dfb_shutdown() of df_databuffer.c: the data buffers are not among the
\* interfaces it releases
data_dfb_shutdown(h) ==
    ReleaseAll(h, {"video", "image", "font", "surface", "primary", "dfb"})

\* a mutated thread creation: no thread comes to run
direct_thread_create_none(ts, name, n) == ts

\* direct_thread_create( DTT_DEFAULT, streamer, buffer, name ): the thread
\* starts with usec = 1000 and a file of n reads
direct_thread_create(ts, name, n) ==
    [ts EXCEPT ![name] = [state |-> "running", usec |-> 1000, left |-> n, put |-> NoPut,
                          fd |-> "open"]]

\* no provider: image_provider and video_provider are NULL, none was tried
NoProvider == [sel |-> "none", tried |-> {}]

\* main(): DirectFBInit, the option loop, the two tests on the options
DataParse ==
    /\ prog = "databuffer" /\ pc = "start"
    /\ \E f \in 0..1 :
         LET ret == IF argv.help THEN 0
                    ELSE IF argv.use_image /\ argv.use_video THEN 1
                    ELSE IF argv.files = 0 THEN 1 ELSE NoExit
         IN  /\ CheckedRun(<<Call("DirectFBInit", "none")>>, f,
                           IF ret = NoExit THEN "create" ELSE "exited")
             /\ exit_status' = IF f = 0 THEN ret ELSE NoExit
    /\ UNCHANGED <<win_vars, font_vars, data_vars, music_vars, prog, argv, last_evt>>

\* main(): the main interface, atexit( dfb_shutdown ), the primary surface
DataCreate ==
    /\ prog = "databuffer" /\ pc = "create"
    /\ \E f \in 0..2 :
         CheckedRun(<<Call("DirectFBCreate", "dfb"), Call("CreateSurface(primary)", "primary")>>,
                    f, "load_font")
    /\ test' = 1
    /\ UNCHANGED <<win_vars, font_vars, music_vars, prog, argv, exit_status, last_evt,
                   threads_started, threads, provider>>

\* test_file() / test_memory() / test_streamed(), "load font": the data buffer,
\* for the streamed one its "Font Streamer" thread, the font
DataLoadFont ==
    /\ prog = "databuffer" /\ pc = "load_font"
    /\ \E f \in 0..4, n \in 0..MaxChunks :
         LET started == Tests[test] = "test_streamed" /\ f /= 1
         IN  /\ CheckedRun(<<Call("CreateDataBuffer", "buffer"), Call("CreateFont", "font"),
                              Call("SetFont", "none"), Call("DrawString", "none")>>,
                            f, "load_media")
             /\ threads_started' = IF started THEN threads_started + 1 ELSE threads_started
             /\ threads' = IF started THEN direct_thread_create(threads, "Font Streamer", n)
                                      ELSE threads
    /\ provider' = NoProvider
    /\ UNCHANGED <<win_vars, font_vars, music_vars, prog, argv, exit_status, last_evt, test>>

\* a mutated selection: the video provider is tried whenever there is no image
SelectProvider_both(use_image, use_video, img_ret, vid_ret) ==
    LET ret == IF ~use_video THEN img_ret ELSE DFB_FAILURE
    IN  [sel   |-> IF ret = DFB_OK THEN "image"
                   ELSE IF vid_ret = DFB_OK THEN "video" ELSE "none",
         tried |-> (IF ~use_video THEN {"image"} ELSE {})
                   \cup (IF ret /= DFB_OK THEN {"video"} ELSE {})]

\* the provider the "load media" part ends up with (sel; "none": ret is not
\* DFB_OK) and the providers whose creation it called (tried), from the two
\* options and the results of the two creation calls
SelectProvider(use_image, use_video, img_ret, vid_ret) ==
    LET ret == IF ~use_video THEN img_ret ELSE DFB_FAILURE
    IN  [sel   |-> IF ret = DFB_OK THEN "image"
                   ELSE IF ~use_image THEN (IF vid_ret = DFB_OK THEN "video" ELSE "none")
                   ELSE "none",
         tried |-> (IF ~use_video THEN {"image"} ELSE {})
                   \cup (IF ret /= DFB_OK /\ ~use_image THEN {"video"} ELSE {})]

\* the checked calls of "load media" from the data buffer to RenderTo / PlayTo;
\* the provider creation stands among them where "if (ret) DirectFBErrorFatal"
\* checks it
MediaCalls(use_image, p) ==
    <<Call("CreateDataBuffer", "buffer")>> \o
    (CASE p = "image" ->
            <<Call("CreateImageProvider", "image"), Call("GetSurfaceDescription", "none"),
              Call("CreateSurface", "surface"), Call("RenderTo", "none")>>
       [] p = "video" ->
            <<Call("CreateVideoProvider", "video"), Call("GetSurfaceDescription", "none"),
              Call("GetPixelFormat", "none"), Call("GetColorSpace", "none"),
              Call("CreateSurface", "surface"), Call("PlayTo", "none")>>
       [] OTHER ->
            <<Call(IF use_image THEN "CreateImageProvider" ELSE "CreateVideoProvider",
                   "none")>>)

\* "load media": the data buffer, for the streamed one its "Media Streamer"
\* thread, the provider, the surface, RenderTo or PlayTo
DataLoadMedia ==
    /\ prog = "databuffer" /\ pc = "load_media"
    /\ \E img_ret \in Results, vid_ret \in Results, f \in 0..7, n \in 0..MaxChunks :
         LET sp      == SelectProvider(argv.use_image, argv.use_video, img_ret, vid_ret)
             p       == sp.sel
             calls   == MediaCalls(argv.use_image, p)
             started == Tests[test] = "test_streamed" /\ f /= 1
             tried   == ~argv.use_video /\ img_ret /= DFB_OK
         IN  /\ f /= 2 \/ p = "none"
             /\ p = "none" => f \in 1..2
             /\ CheckedRunAfter(calls, f, "test_end",
                                IF tried THEN Fail("CreateImageProvider", FALSE)
                                         ELSE last_fail)
             /\ provider' = IF f = 1 THEN NoProvider ELSE sp
             /\ threads_started' = IF started THEN threads_started + 1 ELSE threads_started
             /\ threads' = IF started THEN direct_thread_create(threads, "Media Streamer", n)
                                      ELSE threads
    /\ UNCHANGED <<win_vars, font_vars, music_vars, prog, argv, exit_status, last_evt, test>>

\* the end of a test function: the media streamer is cancelled, joined and
\* destroyed, the surface, the provider and the font are released; main() goes
\* on to the next test or returns 0, and dfb_shutdown() runs at exit
DataTestEnd ==
    /\ prog = "databuffer" /\ pc = "test_end"
    /\ threads' = IF Tests[test] = "test_streamed"
                  THEN [threads EXCEPT !["Media Streamer"].state = "joined"]
                  ELSE threads
    /\ LET h == [held EXCEPT !["surface"] = @ - 1, ![provider.sel] = @ - 1, !["font"] = @ - 1]
       IN  IF test < Len(Tests)
           THEN /\ held' = h
                /\ test' = test + 1
                /\ pc' = "load_font"
                /\ UNCHANGED exit_status
           ELSE /\ held' = data_dfb_shutdown(h)
                /\ pc' = "exited" /\ exit_status' = 0
                /\ UNCHANGED test
    /\ provider' = NoProvider
    /\ UNCHANGED <<win_vars, font_vars, music_vars, prog, argv, last_fail, last_evt,
                   threads_started>>

\* the lengths GetLength() may report to a streamer (unsigned int len): one
\* byte below 64 KiB, 64 KiB, twice 64 KiB
LenInputs == {64 * 1024 - 1, 64 * 1024, 2 * 64 * 1024}

\* the values rand() may return
RandInputs == {8191, 8192}

\* a mutated pause: it shrinks below 1000
next_usec_nofloor(usec, len) ==
    IF len >= 64 * 1024 THEN usec + 100 ELSE usec - 100

\* the pause of the next round: "if (len >= 64 * 1024) usec += 100; else
\* { usec -= 100; usec = MAX( usec, 1000 ); }"
next_usec(usec, len) ==
    IF len >= 64 * 1024 THEN usec + 100
    ELSE IF usec - 100 > 1000 THEN usec - 100 ELSE 1000

\* direct_file_read( &fd, data, rand() % 8192 + 1, &bytes ): the bytes a read
\* may deliver, none at the end of the file, else one byte or all that was asked
ReadBytes(eof, rnd) ==
    IF eof THEN {0} ELSE {1, (rnd % 8192) + 1}

\* a mutated end of a round: the loop is never left
round_end_loop(bytes) == "running"

\* "if (bytes <= 0) { DFBCHECK(buffer->Finish( buffer )); break; }": the state of
\* the thread after a read of the given number of bytes
round_end(bytes) == IF bytes <= 0 THEN "finished" ELSE "running"

\* one round of the while (1) loop of streamer(): GetLength; with 64 KiB or more
\* in the buffer the pause grows by 100 us and the round ends; else the pause
\* shrinks by 100 us, not below 1000, and a read follows: no bytes -> Finish and
\* the thread ends after direct_file_close(), else PutData.  f is the checked
\* call that fails; between GetLength and PutData the reader of the buffer may
\* have drained it.
streamer(name) ==
    /\ prog = "databuffer" /\ pc \notin {"exited", "aborted"}
    /\ threads[name].state = "running"
    /\ \E len \in LenInputs, rnd \in RandInputs, drained \in BOOLEAN, f \in 0..2 :
         LET t == threads[name]
             full == len >= 64 * 1024
             eof == t.left = 0
             u == IF full /\ t.usec >= MaxUsec THEN t.usec ELSE next_usec(t.usec, len)
         IN  /\ full => f /= 2
             /\ (full \/ f = 1) => (rnd = 8192 /\ ~drained)
             /\ pc' = DFBCHECK(IF f = 0 THEN DFB_OK ELSE DFB_FAILURE, pc)
             /\ last_fail' = CASE f = 1 -> Fail("GetLength", TRUE)
                                [] f = 2 -> Fail(IF eof THEN "Finish" ELSE "PutData", TRUE)
                                [] OTHER -> last_fail
             /\ \E bytes \in ReadBytes(eof, rnd) :
                  LET at == IF drained THEN 0 ELSE len
                  IN  threads' =
                        [threads EXCEPT ![name] =
                           IF f = 1 THEN t
                           ELSE IF full
                           THEN [t EXCEPT !.usec = u,
                                          !.put = [seen |-> len, bytes |-> 0, after |-> len]]
                           ELSE IF f = 2 \/ bytes <= 0
                           THEN [t EXCEPT !.usec = u,
                                          !.state = IF f = 2 THEN @ ELSE round_end(bytes),
                                          !.fd = IF f = 2 \/ round_end(bytes) = "running"
                                                 THEN @ ELSE "closed",
                                          !.put = [seen |-> len, bytes |-> 0, after |-> at]]
                           ELSE [t EXCEPT !.usec = u, !.left = @ - 1,
                                          !.put = [seen |-> len, bytes |-> bytes,
                                                   after |-> at + bytes]]]
    /\ UNCHANGED <<win_vars, font_vars, music_vars, prog, argv, exit_status, held, last_evt,
                   threads_started, test, provider>>

DataNext == DataParse \/ DataCreate \/ DataLoadFont \/ DataLoadMedia \/ DataTestEnd
            \/ streamer("Font Streamer") \/ streamer("Media Streamer")

-----------------------------------------------------------------------------
(* fs_music_sample: the tracks of the media files given on the command line *)

NoTrack == [media |-> 0, track |-> 0]

\* the text after "--depth=" on the command lines of the model
DepthArgs == {<<>>, <<"8">>, <<"1", "6">>, <<"2", "4">>, <<"3", "2">>, <<"7">>,
              <<"1", "6", "x">>}

\* argv.playlist[m] is the number of tracks EnumTracks reports for media m
Playlists == UNION {[1..n -> 0..MaxTracks] : n \in 0..MaxMedias}

\* "float volume = 1; float pitch = 1" in units of 1/32; nothing set on the
\* playback yet, no volume or pitch key read
NoMixer == [volume |-> 32, pitch |-> 32, set_volume |-> -1, set_pitch |-> -1, keys |-> 0]

\* the text after "--gain=" on the command lines of the model
GainArgs == {"track", "album", "radio"}

\* tty: isatty( STDIN_FILENO ), the keys are read from a terminal only
MusicArgs ==
    {[NoArgs EXCEPT !.playlist = pl, !.help = h] : pl \in Playlists, h \in BOOLEAN}
    \cup {[NoArgs EXCEPT !.playlist = pl, !.tty = FALSE] : pl \in Playlists}
    \cup {[NoArgs EXCEPT !.playlist = <<2>>, !.gain = g] : g \in GainArgs}
    \cup {[NoArgs EXCEPT !.playlist = pl, !.has_depth = TRUE, !.depth = d] :
            pl \in {<<>>, <<1>>}, d \in DepthArgs}

\* strcmp(): 0 exactly when the two strings are equal
strcmp(a, b) == IF a = b THEN 0 ELSE 1

\* atoi( s ): strtol( s, NULL, 10 ) converted to int
atoi(s) == LongToInt(strtol(s))

\* the option text after the first '-' of "--depth=<d>"
DepthOption(d) == <<"-", "d", "e", "p", "t", "h", "=">> \o d

\* the "-depth=" branch of the option loop, for option text o
ParseDepth(o, fmt) ==
    IF strcmp(o, <<"-", "d", "e", "p", "t", "h", "=">>) = 0
    THEN LET n == atoi(SubSeq(o, 8, Len(o)))
         IN  CASE n = 8 -> "FSSF_U8"
               [] n = 16 -> "FSSF_S16"
               [] n = 24 -> "FSSF_S24"
               [] n = 32 -> "FSSF_S32"
               [] OTHER -> fmt
    ELSE fmt

\* a mutated list: the next of the last element is the first element
link_next_ring(i, n) == IF i < n THEN i + 1 ELSE 1

\* link.next / link.prev of element i of a DirectLink list of n elements built
\* with direct_list_append(): the prev of the first element is the last element
link_next(i, n) == IF i < n THEN i + 1 ELSE 0
link_prev(i, n) == IF i > 1 THEN i - 1 ELSE n

\* fs_shutdown()
fs_shutdown(h) == ReleaseAll(h, {"playback", "stream", "sound"})

\* main(): argc test, FusionSoundInit, the option loop, "if (!medias)"
MusicParse ==
    /\ prog = "music" /\ pc = "start"
    /\ IF Len(argv.playlist) = 0 /\ ~argv.help /\ ~argv.has_depth
       THEN /\ pc' = "exited" /\ exit_status' = 0
            /\ UNCHANGED <<held, last_fail, sampleformat>>
       ELSE \E f \in 0..1 :
              LET ret == IF argv.help THEN 0
                         ELSE IF Len(argv.playlist) = 0 THEN 1 ELSE NoExit
              IN  /\ CheckedRun(<<Call("FusionSoundInit", "none")>>, f,
                                IF ret = NoExit THEN "create" ELSE "exited")
                  /\ exit_status' = IF f = 0 THEN ret ELSE NoExit
                  /\ sampleformat' = IF f = 0 /\ argv.has_depth
                                     THEN ParseDepth(DepthOption(argv.depth), sampleformat)
                                     ELSE sampleformat
    /\ UNCHANGED <<win_vars, font_vars, data_vars, prog, argv, last_evt, media, media_next,
                   track, track_next, quit, repeat, status, back_req, last_select, last_play,
                   stream_fmt, mixer>>

\* main(): FusionSoundCreate, then "media = medias" of the first playlist round
MusicCreate ==
    /\ prog = "music" /\ pc = "create"
    /\ \E f \in 0..1 : CheckedRun(<<Call("FusionSoundCreate", "sound")>>, f, "media_loop")
    /\ media' = 1
    /\ UNCHANGED <<win_vars, font_vars, data_vars, prog, argv, exit_status, last_evt,
                   sampleformat, media_next, track, track_next, quit, repeat, status,
                   back_req, last_select, last_play, stream_fmt, mixer>>

\* the head of "for (media = medias; media && !quit;)": CreateMusicProvider
\* (a failure skips the media), EnumTracks under FSCHECK, "track = media->tracks";
\* at its end "while (repeat && !quit)", then fs_shutdown() and return 0
MusicMediaLoop ==
    /\ prog = "music" /\ pc = "media_loop"
    /\ IF media /= 0 /\ quit = 0
       THEN /\ media_next' = link_next(media, Len(argv.playlist))
            /\ \/ /\ last_fail' = Fail("CreateMusicProvider", FALSE)
                  /\ media' = media_next'
                  /\ UNCHANGED <<pc, held, track>>
               \/ \E f \in 0..1 :
                    /\ pc' = DFBCHECK(IF f = 0 THEN DFB_OK ELSE DFB_FAILURE, "track_loop")
                    /\ last_fail' = IF f = 0 THEN last_fail ELSE Fail("EnumTracks", TRUE)
                    /\ held' = Acquire(held, "music")
                    /\ track' = IF f /= 0 THEN track
                                ELSE IF argv.playlist[media] > 0 THEN 1 ELSE 0
                    /\ UNCHANGED media
            /\ UNCHANGED exit_status
       ELSE IF repeat /= 0 /\ quit = 0
       THEN /\ media' = 1
            /\ UNCHANGED <<pc, held, last_fail, media_next, track, exit_status>>
       ELSE /\ held' = fs_shutdown(held)
            /\ pc' = "exited" /\ exit_status' = 0
            /\ UNCHANGED <<last_fail, media, media_next, track>>
    /\ UNCHANGED <<win_vars, font_vars, data_vars, prog, argv, last_evt, sampleformat,
                   track_next, quit, repeat, status, back_req, last_select, last_play,
                   stream_fmt, mixer>>

\* after the track loop: the music provider is released, "media = media_next"
MusicLeaveMedia(h) ==
    /\ held' = Release(h, "music", 1)
    /\ media' = media_next
    /\ pc' = "media_loop"

\* sdsc.sampleformat after "if (sampleformat) sdsc.sampleformat = sampleformat"
StreamFormat(fmt) == IF fmt /= "FSSF_UNKNOWN" THEN fmt ELSE "native"

\* the track descriptions GetTrackDescription() may report: the replay gains
\* in units of 1/32 (0: none; above 64 * 32 too, a float has no upper limit)
TrackDescs ==
    {[replaygain |-> 1, replaygain_album |-> 2047],
     [replaygain |-> 2080, replaygain_album |-> 0]}

\* "reset volume level": the replay gain of the --gain option when it is above 0
ResetVolume(vol, gain, desc) ==
    IF gain = "track" THEN (IF desc.replaygain > 0 THEN desc.replaygain ELSE vol)
    ELSE IF gain = "album"
    THEN (IF desc.replaygain_album > 0 THEN desc.replaygain_album ELSE vol)
    ELSE vol

\* the volume reset, then SetVolume( volume ) and SetPitch( pitch )
StartTrack(mx, gain, desc) ==
    LET v == ResetVolume(mx.volume, gain, desc)
    IN  [mx EXCEPT !.volume = v, !.set_volume = v, !.set_pitch = mx.pitch]

\* the head of "for (track = media->tracks; track;)" down to PlayToStream.
\* SelectTrack failing skips the track; a stream whose description differs is
\* released with its playback; CreateStream or PlayToStream failing breaks out
\* of the track loop.  None of these results is under FSCHECK.
MusicTrackLoop ==
    /\ prog = "music" /\ pc = "track_loop"
    /\ IF track = 0
       THEN /\ MusicLeaveMedia(held)
            /\ UNCHANGED <<last_fail, track, track_next, status, back_req, last_select,
                           last_play, stream_fmt, mixer>>
       ELSE \E outcome \in {"select_fails", "stream_fails", "play_fails", "ok"},
               differs \in BOOLEAN, desc \in TrackDescs :
              LET drop    == held["stream"] > 0 /\ differs
                  h1      == IF drop THEN Release(Release(held, "playback", 1), "stream", 1)
                                     ELSE held
                  create  == h1["stream"] = 0
                  h2      == IF create THEN Acquire(Acquire(h1, "stream"), "playback") ELSE h1
              IN  /\ differs => held["stream"] > 0 /\ outcome /= "select_fails"
                  /\ outcome = "stream_fails" => create
                  /\ track_next' = link_next(track, argv.playlist[media])
                  /\ last_select' = [media |-> media, track |-> track, quit |-> quit]
                  /\ CASE outcome = "select_fails" ->
                            /\ last_fail' = Fail("SelectTrack", FALSE)
                            /\ track' = track_next'
                            /\ UNCHANGED <<held, media, pc, status, back_req, last_play,
                                           stream_fmt, mixer>>
                       [] outcome = "stream_fails" ->
                            /\ last_fail' = Fail("CreateStream", FALSE)
                            /\ MusicLeaveMedia(h1)
                            /\ UNCHANGED <<track, status, back_req, last_play, stream_fmt, mixer>>
                       [] outcome = "play_fails" ->
                            /\ last_fail' = Fail("PlayToStream", FALSE)
                            /\ MusicLeaveMedia(h2)
                            /\ stream_fmt' = IF create THEN StreamFormat(sampleformat)
                                                       ELSE stream_fmt
                            /\ mixer' = StartTrack(mixer, argv.gain, desc)
                            /\ UNCHANGED <<track, status, back_req, last_play>>
                       [] OTHER ->
                            /\ held' = h2
                            /\ stream_fmt' = IF create THEN StreamFormat(sampleformat)
                                                       ELSE stream_fmt
                            /\ mixer' = StartTrack(mixer, argv.gain, desc)
                            /\ last_play' = [media |-> media, track |-> track,
                                             quit |-> quit, back |-> back_req]
                            /\ back_req' = NoTrack
                            /\ status' = "FMSTATE_PLAY"
                            /\ pc' = "playing"
                            /\ UNCHANGED <<last_fail, media, track>>
    /\ UNCHANGED <<win_vars, font_vars, data_vars, prog, argv, exit_status, last_evt,
                   sampleformat, media_next, quit, repeat>>

\* the head of the playback loop: GetStatus overwrites status
MusicGetStatus ==
    /\ prog = "music" /\ pc = "playing"
    /\ status' \in {"FMSTATE_PLAY", "FMSTATE_FINISHED"}
    /\ pc' = "keys"
    /\ UNCHANGED <<win_vars, font_vars, data_vars, prog, argv, exit_status, held,
                   last_fail, last_evt, sampleformat, media, media_next, track, track_next,
                   quit, repeat, back_req, last_select, last_play, stream_fmt, mixer>>

\* the characters getc( stdin ) delivers in the model
MusicKeys == {"q", "Q", "ESC", "<", ">", "r", "p"}

\* the volume and pitch keys; the model delivers them in the runs with --gain,
\* MaxMixerKeys of them at most
MixerKeys == {"+", "-", "*", "/"}
KeysOf(a, mx) ==
    MusicKeys \cup (IF a.gain /= "none" /\ mx.keys < MaxMixerKeys THEN MixerKeys ELSE {})

\* "volume -= 1.0/32; if (volume < 0.0) volume = 0.0" and the three like it, in
\* units of 1/32, each followed by SetVolume( volume ) or SetPitch( pitch );
\* '<' and '>' mute a playback of pitch 0 before the Stop()
MixerKey(mx, c) ==
    CASE c = "-" -> LET v == IF mx.volume - 1 < 0 THEN 0 ELSE mx.volume - 1
                    IN  [mx EXCEPT !.volume = v, !.set_volume = v, !.keys = @ + 1]
      [] c = "+" -> LET v == IF mx.volume + 1 > 64 * 32 THEN 64 * 32 ELSE mx.volume + 1
                    IN  [mx EXCEPT !.volume = v, !.set_volume = v, !.keys = @ + 1]
      [] c = "/" -> LET q == IF mx.pitch - 1 < 0 THEN 0 ELSE mx.pitch - 1
                    IN  [mx EXCEPT !.pitch = q, !.set_pitch = q, !.keys = @ + 1]
      [] c = "*" -> LET q == IF mx.pitch + 1 > 64 * 32 THEN 64 * 32 ELSE mx.pitch + 1
                    IN  [mx EXCEPT !.pitch = q, !.set_pitch = q, !.keys = @ + 1]
      [] c \in {"<", ">"} /\ mx.pitch = 0 -> [mx EXCEPT !.set_volume = 0, !.set_pitch = 32]
      [] OTHER -> mx

\* one character of "while ((c = getc( stdin )) > 0)": '<' falls through to '>'
MusicKey ==
    /\ prog = "music" /\ pc = "keys" /\ argv.tty
    /\ \E c \in KeysOf(argv, mixer) :
         /\ mixer' = MixerKey(mixer, c)
         /\ media_next' = IF c = "<" /\ track = 1
                          THEN link_prev(media, Len(argv.playlist)) ELSE media_next
         /\ track_next' = IF c = "<" /\ track /= 1
                          THEN link_prev(track, argv.playlist[media]) ELSE track_next
         /\ back_req' = IF c = "<" THEN [media |-> media, track |-> track] ELSE back_req
         /\ status' = IF c \in {"<", ">", "q", "Q", "ESC"} THEN "FMSTATE_FINISHED"
                                                           ELSE status
         /\ repeat' = IF c = "r" THEN 1 - repeat ELSE repeat
         /\ quit' = IF c \in {"q", "Q", "ESC"} THEN 1 ELSE quit
    /\ UNCHANGED <<win_vars, font_vars, data_vars, prog, argv, pc, exit_status, held,
                   last_fail, last_evt, sampleformat, media, track, last_select, last_play,
                   stream_fmt>>

\* getc() returns nothing more: "while (status != FMSTATE_FINISHED)", and
\* after the loop "track = track_next"
MusicRoundEnd ==
    /\ prog = "music" /\ pc = "keys"
    /\ IF status /= "FMSTATE_FINISHED"
       THEN pc' = "playing" /\ UNCHANGED track
       ELSE pc' = "track_loop" /\ track' = track_next
    /\ UNCHANGED <<win_vars, font_vars, data_vars, prog, argv, exit_status, held,
                   last_fail, last_evt, sampleformat, media, media_next, track_next, quit,
                   repeat, status, back_req, last_select, last_play, stream_fmt, mixer>>

MusicNext == MusicParse \/ MusicCreate \/ MusicMediaLoop \/ MusicTrackLoop
             \/ MusicGetStatus \/ MusicKey \/ MusicRoundEnd

-----------------------------------------------------------------------------
(* Specification *)

InitRun(p, args) ==
    /\ prog = p
    /\ argv \in args
    /\ pc = "start"
    /\ exit_status = NoExit
    /\ held = [k \in Kinds |-> 0]
    /\ last_fail = NoFail
    /\ n_windows = 1
    /\ window_stack = {}
    /\ win_log = <<>>
    /\ loop_i = 0
    /\ wdsc = [posx |-> 0, posy |-> 0]
    /\ last_evt = NoEvent
    /\ video = NoVideo
    /\ update = 1
    /\ show_help = 0
    /\ current_font = 0
    /\ glyphs_per_xline = 16
    /\ glyphs_per_yline = 16
    /\ threads_started = 0
    /\ threads = [t \in ThreadNames |-> NoThread]
    /\ test = 0
    /\ provider = NoProvider
    /\ sampleformat = "FSSF_UNKNOWN"
    /\ media = 0
    /\ media_next = 0
    /\ track = 0
    /\ track_next = 0
    /\ quit = 0
    /\ repeat = 0
    /\ status = "FMSTATE_UNKNOWN"
    /\ back_req = NoTrack
    /\ last_select = [media |-> 0, track |-> 0, quit |-> 0]
    /\ last_play = [media |-> 0, track |-> 0, quit |-> 0, back |-> NoTrack]
    /\ stream_fmt = "none"
    /\ mixer = NoMixer

Init ==
    \/ InitRun("image", ImageArgs)
    \/ InitRun("video", VideoArgs)
    \/ InitRun("imagemulti", FilesArgs)
    \/ InitRun("videomulti", VideoFilesArgs)
    \/ InitRun("font", FontArgs)
    \/ InitRun("databuffer", DataArgs)
    \/ InitRun("music", MusicArgs)

\* the music player alone, started without --gain; its main thread always takes
\* its next step
MusicInit == InitRun("music", {a \in MusicArgs : a.gain = "none"})
MusicSpec == MusicInit /\ [][MusicNext]_vars /\ WF_vars(MusicNext)

Next == ImageNext \/ VideoNext \/ ImageMultiNext \/ VideoMultiNext \/ FontNext
        \/ DataNext \/ MusicNext

Spec == Init /\ [][Next]_vars

-----------------------------------------------------------------------------
(* Properties *)

WindowedProgs == {"image", "video", "imagemulti", "videomulti", "font"}
VideoProgs == {"video", "videomulti"}
StackProgs == {"image", "video", "imagemulti", "videomulti"}

\* C1 (as amended): a failed library call whose result is under the check
\* macro, or under an explicit fatal test, aborts the program; execution never
\* goes on past it.
C1_CheckedFailureAborts == last_fail.wrapped => pc = "aborted"

\* C1 witness: a run aborted by the failure of a checked CreateWindow
C1_Witness == pc = "aborted" /\ last_fail = Fail("CreateWindow", TRUE)

\* C1 as stated: whenever any library call has failed, the program has aborted.
C1_AnyFailureAborts == last_fail /= NoFail => pc = "aborted"

\* C2 as stated: on every normal termination every handle obtained from the
\* library has been released.
C2_NothingLeaked == pc = "exited" => \A k \in Kinds : held[k] = 0

InMainLoop == prog \in WindowedProgs /\ pc \in {"main_loop", "events"}

QuitKeyDown(evt) ==
    /\ evt.type = "DWET_KEYDOWN"
    /\ evt.key_symbol \in {"DIKS_ESCAPE", "DIKS_SMALL_Q", "DIKS_CAPITAL_Q", "DIKS_BACK",
                            "DIKS_STOP", "DIKS_EXIT"}

\* the step takes the close event of the only window left in the registry
ClosesLastWindow ==
    /\ prog \in StackProgs
    /\ last_evt'.type = "DWET_CLOSE"
    /\ \E e \in window_stack : window_stack = {e} /\ e.id = last_evt'.window_id

\* the step is the fatal end of a checked call made while the font viewer
\* draws its page
RenderAborts == prog = "font" /\ pc' = "aborted" /\ last_fail'.wrapped

\* C4 (as amended): once the main loop is entered it is left only by a quit
\* key-down, by the close event of the last registered window, or, in the font
\* viewer, by the fatal end of a checked library call made while a page is drawn.
C4_LoopLeft ==
    [][(InMainLoop /\ ~InMainLoop')
         => \/ QuitKeyDown(last_evt') /\ pc' = "exited"
            \/ ClosesLastWindow /\ pc' = "exited"
            \/ RenderAborts]_vars

\* C4 witness: the loop of a sample with several windows has been left by the
\* close event of the last one
C4_Witness ==
    /\ prog \in StackProgs /\ pc = "exited" /\ exit_status = 42
    /\ last_evt.type = "DWET_CLOSE" /\ Len(win_log) >= 2

\* C4 as stated: the main loop is left only by a quit key-down or by the close
\* event of the last registered window.
C4_LoopLeftByUser ==
    [][(InMainLoop /\ ~InMainLoop')
         => \/ QuitKeyDown(last_evt') /\ pc' = "exited"
            \/ ClosesLastWindow /\ pc' = "exited"]_vars

\* the step of a video player takes a quit key-down from the event buffer
TakesQuitKey ==
    /\ prog \in VideoProgs /\ pc = "main_loop" /\ QuitKeyDown(last_evt')
    /\ video'.op.call \notin {"GetLength", "Blit"}

\* the video player has run its shutdown and ended with status 42
ShutDown42 == pc = "exited" /\ exit_status = 42 /\ \A k \in Kinds : held[k] = 0

\* C5 (as amended): in the video players a quit key-down taken from the event
\* buffer while the input interactivity is off ends the program with its
\* shutdown and exit status 42, whatever keys were processed before.
C5_QuitWhenNotInteractive == [][(TakesQuitKey /\ ~video.i) => ShutDown42']_vars

\* C5 witness: a player whose provider is interactive has quit on a quit key
C5_Witness ==
    /\ prog \in VideoProgs /\ ShutDown42 /\ QuitKeyDown(last_evt)
    /\ "DVCAPS_INTERACTIVE" \in video.caps

\* C5 as stated: every quit key-down taken from the event buffer ends the
\* video player with its shutdown and exit status 42.
C5_QuitAlways == [][TakesQuitKey => ShutDown42']_vars

\* C6 as stated: once q, Q or ESC has been read, no further track is selected.
C6_NoSelectAfterQuit == last_select.quit = 0

\* C7 as stated: the track started after '<' is the predecessor of the track
\* '<' was handled on (a track of the preceding media for a first track), and
\* never a later track of the same media.
C7_PreviousTrack ==
    last_play.back /= NoTrack =>
      /\ ~(last_play.media = last_play.back.media /\ last_play.track > last_play.back.track)
      /\ last_play.back.track > 1 =>
            /\ last_play.media = last_play.back.media
            /\ last_play.track = last_play.back.track - 1
      /\ (last_play.back.track = 1 /\ last_play.back.media > 1) =>
            last_play.media = last_play.back.media - 1

\* the number a decimal text denotes, capped at cap (0 for a text without
\* leading digits; the text after the digits is not looked at)
RECURSIVE Denoted(_, _, _, _)
Denoted(s, p, acc, cap) ==
    IF p > Len(s) \/ s[p] \notin Digits THEN acc
    ELSE LET v == acc * 10 + DigitVal(s[p])
         IN  Denoted(s, p + 1, IF v > cap THEN cap ELSE v, cap)

SignedDenoted(s, cap) ==
    IF Len(s) > 0 /\ s[1] = "-" THEN 0 - Denoted(s, 2, 0, cap)
    ELSE IF Len(s) > 0 /\ s[1] = "+" THEN Denoted(s, 2, 0, cap)
    ELSE Denoted(s, 1, 0, cap)

\* C8 as stated: with --depth=<N>, N in {8, 16, 24, 32}, every stream is created
\* with the format U8, S16, S24, S32; with any other N, the native format.
C8_DepthSelectsFormat ==
    (prog = "music" /\ argv.has_depth /\ stream_fmt /= "none") =>
      stream_fmt = (CASE SignedDenoted(argv.depth, 99) = 8 -> "FSSF_U8"
                      [] SignedDenoted(argv.depth, 99) = 16 -> "FSSF_S16"
                      [] SignedDenoted(argv.depth, 99) = 24 -> "FSSF_S24"
                      [] SignedDenoted(argv.depth, 99) = 32 -> "FSSF_S32"
                      [] OTHER -> "native")

\* C9 as stated: with --windows=<N> the main loop is entered with exactly
\* clamp(N, 1, 20) windows created and registered, for every integer N.
C9_ClampedWindows ==
    (prog \in {"image", "video"} /\ pc = "main_loop" /\ argv.has_windows
       /\ last_evt = NoEvent) =>
      /\ Len(win_log) = CLAMP(SignedDenoted(argv.windows, 21), 1, 20)
      /\ Cardinality(window_stack) = Len(win_log)

\* the distance between two windows of a sample
StepOf(p) == IF p \in {"image", "video"} THEN [x |-> 10, y |-> 5] ELSE [x |-> 32, y |-> 18]

\* C10: the k-th window created (k from 0) is at (32k, 18k) in the
\* one-window-per-file samples and at (10k, 5k) in the N-window samples; every
\* entry of the registry is filed under the id of the window it holds, and while
\* the windows are created every window created is in the registry.
C10_LinearPositions ==
    /\ \A k \in 1..Len(win_log) :
          /\ win_log[k].posx = StepOf(prog).x * (k - 1)
          /\ win_log[k].posy = StepOf(prog).y * (k - 1)
    /\ \A e \in window_stack : \E k \in 1..Len(win_log) : win_log[k] = e
    /\ pc = "create_stack" => \A k \in 1..Len(win_log) : win_log[k] \in window_stack

\* C10 witness: three windows of a one-window-per-file sample are registered
C10_Witness ==
    /\ prog \in {"imagemulti", "videomulti"}
    /\ Len(win_log) = 3 /\ Cardinality(window_stack) = 3

\* the step of a video player takes a key-down of key k from the event buffer
TakesKeyDown(k) ==
    /\ prog \in VideoProgs /\ pc = "main_loop"
    /\ video'.op.call \notin {"GetLength", "Blit"}
    /\ last_evt'.type = "DWET_KEYDOWN" /\ last_evt'.key_symbol = k

\* the window the key event of the step names is registered (always asked for
\* in the one-window-per-file player only)
EventWindowKnown ==
    prog = "video" \/ \E e \in window_stack : e.id = last_evt'.window_id

\* x stepped and kept within the 16 bits of a colour component
Stepped(x, step) ==
    IF x + step < 0 THEN 0 ELSE IF x + step > 65535 THEN 65535 ELSE x + step

\* the colour adjustment set is the one reported with exactly the components
\* of fl stepped
ColorStepped(o, fl, step) ==
    /\ o.call = "SetColorAdjustment"
    /\ o.after.brightness = IF "DCAF_BRIGHTNESS" \in fl
                            THEN Stepped(o.before.brightness, step) ELSE o.before.brightness
    /\ o.after.contrast = IF "DCAF_CONTRAST" \in fl
                          THEN Stepped(o.before.contrast, step) ELSE o.before.contrast
    /\ o.after.hue = IF "DCAF_HUE" \in fl
                     THEN Stepped(o.before.hue, step) ELSE o.before.hue
    /\ o.after.saturation = IF "DCAF_SATURATION" \in fl
                            THEN Stepped(o.before.saturation, step) ELSE o.before.saturation

\* C11 (as amended) for one direction: while the input interactivity is off, a
\* left/right key-down with a colour flag set steps exactly the flagged
\* components by -257/+257 within [0, 0xffff] and does not seek, unless the
\* adjustment cannot be read (nothing is set then); with no flag set it seeks by
\* -10 s/+10 s, the position kept at 0 or above, and sets no colour; the
\* N-window player seeks only on a provider with DVCAPS_SEEK, and the
\* one-window-per-file player does nothing for a window that is not registered.
C11_Direction(k, step, secs) ==
    (TakesKeyDown(k) /\ ~video.i) =>
      LET o == video'.op
      IN  /\ video'.flags = video.flags
          /\ ~EventWindowKnown => o.call = "none"
          /\ (EventWindowKnown /\ video.flags /= {}) =>
                \/ ColorStepped(o, video.flags, step)
                \/ o.call = "GetColorAdjustment"
          /\ (EventWindowKnown /\ video.flags = {}) =>
                IF prog = "video" /\ "DVCAPS_SEEK" \notin video.caps THEN o.call = "none"
                ELSE \/ /\ o.call = "SeekTo"
                        /\ o.after = (IF o.before + secs < 0 THEN 0 ELSE o.before + secs)
                     \/ prog = "videomulti" /\ o.call = "GetPos"

\* C11 (as amended): see C11_Direction, for the left and the right key.
C11_ColorOrSeek ==
    [][/\ C11_Direction("DIKS_CURSOR_LEFT", -257, -10)
       /\ C11_Direction("DIKS_CURSOR_RIGHT", 257, 10)]_vars

\* C11 witness: with the hue flag set, the right key has raised the hue to
\* 0xffff and left the unflagged components alone
C11_Witness ==
    /\ prog \in VideoProgs /\ pc = "main_loop"
    /\ last_evt.type = "DWET_KEYDOWN" /\ last_evt.key_symbol = "DIKS_CURSOR_RIGHT"
    /\ video.flags = {"DCAF_HUE"} /\ video.op.call = "SetColorAdjustment"
    /\ video.op.before.hue = 65300 /\ video.op.after.hue = 65535
    /\ video.op.after.brightness = video.op.before.brightness

\* C11 as stated, for one direction: with a flag set the flagged components are
\* stepped and nothing else happens; with no flag set the position is moved by
\* 10 seconds.
C11_StatedDirection(k, step, secs) ==
    TakesKeyDown(k) =>
      LET o == video'.op
      IN  IF video.flags /= {} THEN ColorStepped(o, video.flags, step)
          ELSE o.call = "SeekTo" /\ o.after = o.before + secs

\* C11 as stated: a left (right) key-down changes exactly the flagged colour
\* components by -257 (+257), clamped, when a flag is set, and seeks by -10 s
\* (+10 s) when none is.
C11_AlwaysColorOrSeek ==
    [][/\ C11_StatedDirection("DIKS_CURSOR_LEFT", -257, -10)
       /\ C11_StatedDirection("DIKS_CURSOR_RIGHT", 257, 10)]_vars

\* the pause keys of the usage text (DFB_LOWER_CASE folds P to p)
PauseKeys == {"DIKS_SPACE", "DIKS_SMALL_P"}

\* the step of a video player takes a key-down of a pause key
TakesPauseKey ==
    /\ prog \in VideoProgs /\ pc = "main_loop"
    /\ video'.op.call \notin {"GetLength", "Blit"}
    /\ last_evt'.type = "DWET_KEYDOWN" /\ last_evt'.key_symbol \in PauseKeys

\* the provider was handed speed 0 for a speed other than 0 and speed 1 for 0
SpeedToggled(o) ==
    /\ o.call = "SetSpeed"
    /\ o.before /= 0 => o.after = 0
    /\ o.before = 0 => o.after = 1

\* C12 (as amended): while the input interactivity is off, a key-down of Space
\* or p toggles the speed between 0 and 1.0 without stopping or restarting the
\* provider in the one-window-per-file player (unless the window is not
\* registered or the speed cannot be read: nothing is done then) and in the
\* N-window player on a provider with DVCAPS_SPEED; on a provider without
\* DVCAPS_SPEED the N-window player stops a playing provider and restarts any
\* other, as the Enter key does.
C12_PauseOrStopStart ==
    [][(TakesPauseKey /\ ~video.i) =>
         LET o == video'.op
         IN  IF prog = "video"
             THEN IF "DVCAPS_SPEED" \in video.caps THEN SpeedToggled(o)
                  ELSE /\ o.call \in {"PlayTo", "Stop"}
                       /\ o.call = "Stop" <=> o.before = "DVSTATE_PLAY"
             ELSE IF EventWindowKnown THEN SpeedToggled(o) \/ o.call = "GetSpeed"
                  ELSE o.call = "none"]_vars

\* C12 witness: Space has paused a provider that ran at speed 2
C12_Witness ==
    /\ prog \in VideoProgs /\ pc = "main_loop"
    /\ last_evt.type = "DWET_KEYDOWN" /\ last_evt.key_symbol = "DIKS_SPACE"
    /\ video.op = Op("SetSpeed", 2, 0)

\* C12 as stated: a key-down of Space or P/p sets the speed to 0 when it is not
\* 0 and to 1.0 when it is 0, and neither stops nor restarts the provider.
C12_AlwaysPause == [][TakesPauseKey => SpeedToggled(video'.op)]_vars

\* C13: in the data-buffer loader --image together with --video (and no --help)
\* ends the program with status 1 before any interface is created; with --image
\* only the image provider is tried, with --video only the video provider, with
\* neither the image provider first and the video provider only after the image
\* provider failed; when no provider could be created the program aborts, and
\* the two providers are never held together.
C13_ProviderSelection ==
    prog = "databuffer" =>
      /\ (argv.use_image /\ argv.use_video /\ ~argv.help /\ pc /= "start") =>
            /\ \/ pc = "exited" /\ exit_status = 1
               \/ pc = "aborted" /\ last_fail.site = "DirectFBInit"
            /\ \A k \in Kinds : held[k] = 0
      /\ argv.use_image => provider.tried \subseteq {"image"}
      /\ argv.use_video => provider.tried \subseteq {"video"}
      /\ (~argv.use_image /\ ~argv.use_video /\ provider.tried /= {}) =>
            /\ "image" \in provider.tried
            /\ "video" \in provider.tried => held["image"] = 0
      /\ (provider.tried /= {} /\ provider.sel = "none") => pc = "aborted"
      /\ pc = "test_end" => (provider.sel \in provider.tried /\ held[provider.sel] = 1)
      /\ ~(held["image"] > 0 /\ held["video"] > 0)

\* C13 witness: with neither option the image provider failed, the video
\* provider was created and plays
C13_Witness ==
    /\ prog = "databuffer" /\ pc = "test_end"
    /\ ~argv.use_image /\ ~argv.use_video
    /\ provider = [sel |-> "video", tried |-> {"image", "video"}]
    /\ held["video"] = 1 /\ held["image"] = 0

\* the step of the font viewer takes a key-down of a key of keys from the event
\* buffer and goes on
FontTakesKeyDown(keys) ==
    /\ prog = "font" /\ pc = "events" /\ pc' = "events"
    /\ last_evt'.type = "DWET_KEYDOWN" /\ last_evt'.key_symbol \in keys

\* the font viewer is in its main loop
InFontLoop == prog = "font" /\ pc \in {"main_loop", "events"}

\* C14: in the font viewer current_font is always an index of the font list;
\* Space and cursor-up select the next font, after the last one the first;
\* Backspace and cursor-down select the previous font, before the first one the
\* last; the next font followed by the previous font is the font before.
C14_CyclicFonts ==
    /\ [](InFontLoop =>
            /\ current_font \in 0..(argv.files - 1)
            /\ prev_font(next_font(current_font, argv.files), argv.files) = current_font
            /\ next_font(prev_font(current_font, argv.files), argv.files) = current_font)
    /\ [][/\ FontTakesKeyDown({"DIKS_SPACE", "DIKS_CURSOR_UP"}) =>
               current_font' = (current_font + 1) % argv.files
          /\ FontTakesKeyDown({"DIKS_BACKSPACE", "DIKS_CURSOR_DOWN"}) =>
               current_font' = (current_font + argv.files - 1) % argv.files]_vars

\* C14 witness: with three fonts, cursor-up on the last font has selected the
\* first one
C14_Witness ==
    /\ prog = "font" /\ pc = "events" /\ argv.files = 3
    /\ last_evt.type = "DWET_KEYDOWN" /\ last_evt.key_symbol = "DIKS_CURSOR_UP"
    /\ current_font = 0 /\ update = 1

\* C15: in the font viewer glyphs_per_xline and glyphs_per_yline are equal and
\* at least 1; '+' adds one to both, '-' takes one from both, except that 1
\* stays 1.
C15_GlyphGrid ==
    /\ [](prog = "font" => (glyphs_per_xline = glyphs_per_yline /\ glyphs_per_xline >= 1))
    /\ [][/\ FontTakesKeyDown({"DIKS_PLUS_SIGN"}) =>
               /\ glyphs_per_xline' = glyphs_per_xline + 1
               /\ glyphs_per_yline' = glyphs_per_yline + 1
          /\ FontTakesKeyDown({"DIKS_MINUS_SIGN"}) =>
               /\ glyphs_per_xline' = (IF glyphs_per_xline = 1 THEN 1 ELSE glyphs_per_xline - 1)
               /\ glyphs_per_yline' = (IF glyphs_per_yline = 1 THEN 1 ELSE glyphs_per_yline - 1)]_vars

\* C15 witness: '-' has brought the grid down to one glyph per line
C15_Witness ==
    /\ prog = "font" /\ pc = "events"
    /\ last_evt.type = "DWET_KEYDOWN" /\ last_evt.key_symbol = "DIKS_MINUS_SIGN"
    /\ glyphs_per_xline = 1 /\ glyphs_per_yline = 1

\* the help keys (DFB_LOWER_CASE folds H to h)
HelpKeys == {"DIKS_F1", "DIKS_SMALL_H", "DIKS_CAPITAL_H", "DIKS_HELP"}

\* the step of the font viewer takes a key-up from the event buffer
FontTakesKeyUp ==
    /\ prog = "font" /\ pc = "events" /\ pc' = "events"
    /\ last_evt'.type = "DWET_KEYUP"

\* C16: in the font viewer show_help becomes 1 only on a key-down of F1, H/h or
\* HELP, and every key-up leaves it 0; a help key-down while the help is shown
\* changes nothing; every change of show_help sets update.
C16_HelpWhileHeld ==
    [][prog = "font" =>
         /\ (show_help = 0 /\ show_help' = 1) => FontTakesKeyDown(HelpKeys)
         /\ FontTakesKeyDown(HelpKeys) => show_help' = 1
         /\ FontTakesKeyUp => show_help' = 0
         /\ (FontTakesKeyDown(HelpKeys) /\ show_help = 1) => UNCHANGED font_vars
         /\ show_help' /= show_help => update' = 1]_vars

\* C16 witness: F1 is down, the help page is requested
C16_Witness ==
    /\ prog = "font" /\ pc = "events"
    /\ last_evt.type = "DWET_KEYDOWN" /\ last_evt.key_symbol = "DIKS_F1"
    /\ show_help = 1 /\ update = 1

\* the number of tracks of the playlist up to track t of media m
RECURSIVE TrackPos(_, _, _)
TrackPos(pl, m, t) == IF m <= 1 THEN t ELSE pl[m - 1] + TrackPos(pl, m - 1, t)

\* the playlist has come to its end, or quit was requested
AfterLastMedia == prog = "music" /\ pc = "media_loop" /\ (media = 0 \/ quit /= 0)

\* the music player has shut down and returned 0
MusicReturned ==
    pc = "exited" /\ exit_status = 0 /\ \A k \in Kinds : held[k] = 0

\* every track started comes to report FMSTATE_FINISHED
TracksFinish ==
    [](prog = "music" /\ pc = "playing" => <>(pc = "keys" /\ status = "FMSTATE_FINISHED"))

C18_MixerInRange ==
    /\ [](prog = "music" =>
            /\ mixer.volume >= 0 /\ mixer.volume <= 64 * 32
            /\ mixer.pitch >= 0 /\ mixer.pitch <= 64 * 32)
    /\ [][(prog = "music" /\ pc = "keys" /\ mixer'.keys /= mixer.keys) =>
            /\ mixer'.volume /= mixer.volume => mixer'.set_volume = mixer'.volume
            /\ mixer'.pitch /= mixer.pitch => mixer'.set_pitch = mixer'.pitch]_vars

\* a pass of the main loop in which the event wait timed out: no event is taken
\* and the provider is asked for its length and its position
TimedOut ==
    /\ prog \in VideoProgs /\ pc = "main_loop" /\ argv.logo
    /\ video'.op.call = "GetLength" /\ last_evt' = last_evt

\* the progress p is what the code computes from the position and the length:
\* floor(100 * pos / len + 0.5) when both are positive, 0 otherwise
IsProgressOf(p, pos, len) ==
    IF len > 0 /\ pos > 0
    THEN 2 * len * p <= 200 * pos + len /\ 200 * pos + len < 2 * len * (p + 1)
    ELSE p = 0

\* C19: the logo progress (of the window, or of an entry of the registry) changes
\* only in a pass of the main loop whose event wait timed out; it is then
\* floor(100 * pos / len + 0.5) when len > 0 and pos > 0 and 0 otherwise, hence
\* within 0..100 when 0 <= pos <= len; the two rectangles the frame callback
\* draws start at 0 and at the width of the first, and their widths add up to
\* the width of the logo.
C19_LogoProgress ==
    [][(prog \in VideoProgs) =>
        (/\ \A x \in DOMAIN video.progress \cap DOMAIN video'.progress :
              video'.progress[x] /= video.progress[x] => TimedOut
         /\ TimedOut =>
              \A x \in DOMAIN video'.progress :
                 LET in == video'.op.before[x]
                     p  == video'.progress[x]
                 IN  /\ IsProgressOf(p, in.pos, in.len)
                     /\ (0 <= in.pos /\ in.pos <= in.len) => p \in 0..100
         /\ video'.op.call = "Blit" =>
              LET r == video'.op.after
              IN  /\ r[1].x = 0 /\ r[2].x = r[1].w
                  /\ r[1].w + r[2].w = video'.op.before.width)]_vars

\* C19 witness: after a timeout at one eighth of the length the progress is 13,
\* and the frame callback has split the logo of width 97 into 12 and 85
C19_Witness ==
    /\ prog \in VideoProgs /\ pc = "main_loop" /\ video.op.call = "Blit"
    /\ video.op.before.width = 97 /\ video.op.before.progress = 13
    /\ video.op.after[1].w = 12 /\ video.op.after[2].x = 12 /\ video.op.after[2].w = 85
    /\ \E x \in DOMAIN video.progress : video.progress[x] = 13

\* a round of the loop of streamer() by the thread of the given name
StreamerRound(name) ==
    /\ threads[name].state = "running"
    /\ threads'[name].state \in {"running", "finished"}
    /\ threads'[name] /= threads[name]

\* C20: a streamer starts with a pause of 1000 us; in a round it hands data to
\* PutData only when GetLength reported less than 64 KiB, between 1 and 8192
\* bytes, so that the buffer holds at most 64 KiB - 1 + 8192 bytes after it; the
\* pause grows by 100 us in a round that saw 64 KiB or more (as far as the
\* pause is counted, up to MaxUsec) and shrinks by 100 us, not below 1000 us, in
\* any other round; it is never below 1000 us.
C20_StreamerPacing ==
    [][\A name \in ThreadNames :
         LET t == threads[name]
             n == threads'[name]
         IN  /\ (t.state = "none" /\ n.state = "running") => n.usec = 1000
             /\ n.state = "running" => n.usec >= 1000
             /\ StreamerRound(name) =>
                  /\ n.put.bytes > 0 =>
                       /\ n.put.seen < 64 * 1024
                       /\ n.put.bytes \in 1..8192
                       /\ n.put.after <= 64 * 1024 - 1 + 8192
                  /\ t.usec < MaxUsec =>
                       n.usec = IF n.put.seen >= 64 * 1024 THEN t.usec + 100
                                ELSE IF t.usec = 1000 THEN 1000 ELSE t.usec - 100
                  /\ n.put.seen < 64 * 1024 =>
                       n.usec = IF t.usec = 1000 THEN 1000 ELSE t.usec - 100]_vars

\* C20 witness: after two rounds that saw a full buffer the pause was 1200 us;
\* the next round saw 64 KiB - 1, shrank the pause to 1100 us and handed 8192
\* bytes to PutData
C20_Witness ==
    \E name \in ThreadNames :
       /\ threads[name].state = "running" /\ threads[name].usec = 1100
       /\ threads[name].put = [seen |-> 64 * 1024 - 1, bytes |-> 8192,
                               after |-> 64 * 1024 - 1 + 8192]

\* the data-buffer loader alone; a streamer thread that can run a round
\* eventually runs one
DataInit == InitRun("databuffer", DataArgs)
StreamSpec ==
    /\ DataInit /\ [][DataNext]_vars
    /\ WF_vars(streamer("Font Streamer")) /\ WF_vars(streamer("Media Streamer"))

\* the reader of the buffer keeps draining it: again and again the streamer of
\* the given name, while it runs, has seen less than 64 KiB
Draining(name) ==
    []<>(threads[name].state /= "running" \/ threads[name].put.seen < 64 * 1024)

\* the streamer was cancelled and joined, or the process has ended
StreamerStopped(name) ==
    threads[name].state = "joined" \/ pc \in {"exited", "aborted"}

\* while the buffer is kept drained, a running streamer comes to its end, or is
\* stopped before
DrainedEnds(name) ==
    Draining(name) =>
        [](threads[name].state = "running" =>
              <>(threads[name].state = "finished" \/ StreamerStopped(name)))

\* C21 (as amended): a streamer reaches its end only in a round that saw less
\* than 64 KiB and read zero bytes of a file with nothing left; it then has
\* called Finish and closed the file, and afterwards hands no data to the buffer
\* and never runs again; a round that saw 64 KiB or more never calls Finish.
\* While the reader keeps draining the buffer, a running streamer comes to this
\* end, unless it is cancelled and joined, a checked call fails or the process
\* ends before.
C21_StreamerEnds ==
    /\ [][\A name \in ThreadNames :
            LET t == threads[name]
                n == threads'[name]
            IN  /\ (n.state = "finished" /\ t.state /= "finished") =>
                      /\ StreamerRound(name) /\ t.left = 0
                      /\ n.put.seen < 64 * 1024 /\ n.put.bytes = 0
                      /\ t.fd = "open" /\ n.fd = "closed"
                /\ t.state = "finished" =>
                      /\ n.state \in {"finished", "joined"}
                      /\ n.put = t.put /\ n.fd = t.fd
                /\ (StreamerRound(name) /\ n.put.seen >= 64 * 1024) =>
                      n.state = "running"]_vars
    /\ DrainedEnds("Font Streamer")
    /\ DrainedEnds("Media Streamer")

\* C21 witness: the media streamer has seen a full buffer, later read zero
\* bytes, called Finish and closed its file
C21_Witness ==
    /\ prog = "databuffer" /\ pc \notin {"exited", "aborted"}
    /\ threads["Media Streamer"].state = "finished"
    /\ threads["Media Streamer"].fd = "closed"
    /\ threads["Media Streamer"].left = 0
    /\ threads["Media Streamer"].usec = 1100
    /\ threads["Media Streamer"].put.bytes = 0

\* C21 as stated, for one streamer: while the buffer is kept drained, a running
\* streamer always comes to call Finish, close its file and terminate (even
\* when no checked call ever fails)
DrainedFinishes(name) ==
    (Draining(name) /\ [](pc /= "aborted")) =>
        [](threads[name].state = "running" =>
              <>(threads[name].state = "finished" /\ threads[name].fd = "closed"))

\* C21 as stated
C21_AlwaysFinishes ==
    DrainedFinishes("Font Streamer") /\ DrainedFinishes("Media Streamer")

\* a pass of the font viewer's main loop that draws a page of a font file that
\* cannot be loaded
RendersUnloadable ==
    /\ prog = "font" /\ pc = "main_loop" /\ update = 1
    /\ current_font \in argv.unloadable

\* C22 as stated: when the selected font file cannot be loaded, the pass that
\* draws its page does not abort: it goes on to the event loop, and on the font
\* page it has drawn the message of the failed CreateFont.
C22_FailedOpenKeepsRunning ==
    [][RendersUnloadable =>
         /\ pc' = "events"
         /\ show_help = 0 => last_fail' = Fail("CreateFont(font)", FALSE)]_vars

====
